---------------------------- MODULE Spec2Model ----------------------------
(***************************************************************************)
(* slack-social-ai: the entry store (internal/history), its eviction and   *)
(* claim discipline, and the publish orchestrator (publish.go).            *)
(*                                                                         *)
(* Time.  The clock `now` counts ticks of half a second.  A timestamp is   *)
(* stored as an RFC3339 string, which has second resolution: the stored    *)
(* form of an instant is the instant truncated to a whole second, so a     *)
(* stored timestamp is an even tick.  Empty stands for the empty string    *)
(* and ZeroTime for Go's zero time.Time, which is before every instant.    *)
(*                                                                         *)
(* Scale.  The cap maxEntries (200 in the source) and the stuck timeout    *)
(* (5 minutes in the source) are scaled down so that the states in which   *)
(* they matter are reached; the code is the same for every value.          *)
(***************************************************************************)
EXTENDS Integers, Sequences, FiniteSets, TLC

VARIABLES
    disk,      \* history.json: the committed document, a sequence of JSON objects
    lock,      \* history.lock: the set of processes holding the flock
    now,       \* the wall clock, in ticks
    pc,        \* per process: the stage it is at
    call,      \* per process: the command it runs (append, claim, publish)
    loaded,    \* per process: the document it read under the lock
    entry,     \* per process: the `entry` it built (Append) or claimed (ClaimNextReady)
    outcome,   \* per process: the structured outcome of its orchestrator invocation
    sends,     \* the sender's log: the successful sends, as [id, msg, t, by]
    minInterval, \* cfg.Schedule.PostEvery(), in ticks
    disk0,     \* the document at the start (history, for the claims)
    civil,     \* the weekday and the hour of the wall clock
    nextEligible, \* per process: the next_eligible instant of a too_soon outcome
    tmp,       \* history.json.tmp: the temp file of atomicWrite
    result,    \* per process: the entries its Load returned
    ret,       \* per process: what its last store call returned (found, error, instant)
    arg,       \* per process: the scheduledAt its Append was called with
    claimedAt, \* per process: the instant of its claim (history, for the claims)
    sched,     \* the display path: the Schedule of the configuration
    instant,   \* the display path: the instant asked about, in minutes since a Monday 00:00
    queue,     \* the display path: the queued entries handed to the predictor
    lastPublished, \* the display path: the last published instant, or ZeroTime
    ran,       \* the display path: the functions that have returned
    active,    \* the result of IsActiveAt
    advanced,  \* the result of AdvanceToActive
    predictions \* the result of PredictPublishTimes

\* the variables of the schedule's functions and of the predictor
schedVars == <<sched, instant, queue, lastPublished, ran, active, advanced, predictions>>

vars == <<disk, lock, now, pc, call, loaded, entry, outcome, sends, minInterval, disk0, civil, nextEligible, tmp, result, ret, arg, claimedAt, schedVars>>

----------------------------------------------------------------------------
(* Bounds of the model *)

NumProcs == 2
MaxInit == 2
NumIDs == 2

(* Program constants (scaled, see above) *)

maxEntries == 3
StuckTimeout == 4
TicksPerSecond == 2

\* the clock runs until a claim made at the start is past the stuck timeout
MaxTime == StuckTimeout + TicksPerSecond

\* the span by which time passes in a fair run: whole seconds, more than the
\* stuck timeout
Window == StuckTimeout + TicksPerSecond

\* processes are killed only before this instant of a fair run
KillHorizon == TicksPerSecond

\* the instant of the direct calls: in the middle of a second
StoreNow == TicksPerSecond + 1

Empty == -1
ZeroTime == -2

Procs == 1..NumProcs
IDs == 1..NumIDs

----------------------------------------------------------------------------
(* Timestamps *)

\* t.UTC().Format(time.RFC3339): second resolution, the sub-second part is dropped
FormatRFC3339(t) == t - (t % TicksPerSecond)

\* time.Parse(time.RFC3339, s): the instant a stored string denotes
ParseRFC3339(s) == s

\* t.After(u)
After(t, u) == t > u

----------------------------------------------------------------------------
(* Entries and the document *)

\* The zero Entry{} / a nil *Entry
NoEntry ==
    [ID |-> Empty, Message |-> Empty, Status |-> "", CreatedAt |-> Empty,
     ScheduledAt |-> Empty, PublishedAt |-> Empty, UpdatedAt |-> Empty]

\* json.Unmarshal of one object into Entry: the keys Entry does not have are dropped
UnmarshalEntry(o) ==
    [ID |-> o.id, Message |-> o.message, Status |-> o.status,
     CreatedAt |-> o.created_at, ScheduledAt |-> o.scheduled_at,
     PublishedAt |-> o.published_at, UpdatedAt |-> o.updated_at]

\* json.Marshal of one Entry: an Entry has no "ts" key
MarshalEntry(e) ==
    [id |-> e.ID, message |-> e.Message, status |-> e.Status,
     created_at |-> e.CreatedAt, scheduled_at |-> e.ScheduledAt,
     published_at |-> e.PublishedAt, updated_at |-> e.UpdatedAt, ts |-> Empty]

\* nothing returned yet; the error is "" for nil
NoReturn == [found |-> FALSE, err |-> "", time |-> ZeroTime]

\* a file that does not exist; a file that exists holds the objects written so far
NoFile == [exists |-> FALSE, bytes |-> <<>>]

\* loadFromDisk: read the document and unmarshal it, without migration
loadFromDisk(doc) == [i \in 1..Len(doc) |-> UnmarshalEntry(doc[i])]

\* atomicWrite: marshal, write the temp file, rename over the document
atomicWrite(es) == [i \in 1..Len(es) |-> MarshalEntry(es[i])]

RemoveAt(s, i) == SubSeq(s, 1, i - 1) \o SubSeq(s, i + 1, Len(s))

\* the first index whose entry has the status, 0 for the code's idx == -1
FirstWithStatus(es, status) ==
    IF \E i \in 1..Len(es) : es[i].Status = status
    THEN CHOOSE i \in 1..Len(es) :
            /\ es[i].Status = status
            /\ \A j \in 1..(i - 1) : es[j].Status # status
    ELSE 0


----------------------------------------------------------------------------
(* Eviction *)

RECURSIVE DropOldest(_, _)
\* one of the two loops of enforceMaxEntries: while over the cap, remove the
\* first entry with the status; stop when there is none
DropOldest(es, status) ==
    IF Len(es) > maxEntries /\ FirstWithStatus(es, status) # 0
    THEN DropOldest(RemoveAt(es, FirstWithStatus(es, status)), status)
    ELSE es

\* the legacy store's cap: keep the last maxEntries, whatever their status
TrimFront(es) ==
    IF Len(es) > maxEntries
    THEN SubSeq(es, Len(es) - maxEntries + 1, Len(es))
    ELSE es

\* a cap that only trims from the front, as the legacy store did
enforceByTrimFront(es) == TrimFront(es)

\* enforceMaxEntries: published first, then queued, then from the front
enforceMaxEntries(es) ==
    IF Len(es) <= maxEntries
    THEN es
    ELSE TrimFront(DropOldest(DropOldest(es, "published"), "queued"))

----------------------------------------------------------------------------
(* Legacy documents *)

\* a legacy record: only "ts" and "message"
LegacyObject(ts, msg) ==
    [id |-> Empty, message |-> msg, status |-> "", created_at |-> Empty,
     scheduled_at |-> Empty, published_at |-> Empty, updated_at |-> Empty, ts |-> ts]

\* needsMigration: no entry has an ID, and some record has a message and a ts
needsMigration(es, raw) ==
    /\ Len(es) # 0
    /\ \A i \in 1..Len(es) : es[i].ID = Empty
    /\ \E i \in 1..Len(raw) : raw[i].message # Empty /\ raw[i].ts # Empty

\* the first 8 hex digits of sha256("ts:i:message"): a function of the three
\* into the ID space (i is the 0-based position)
HashID(ts, i, msg) == ((ts + i + msg + 2) % NumIDs) + 1

\* a migration that keeps only the records that have a message and a ts
migrateValidOnly(raw) ==
    LET valid == SelectSeq(raw, LAMBDA o : o.message # Empty /\ o.ts # Empty)
    IN  [i \in 1..Len(valid) |->
            [ID |-> HashID(valid[i].ts, i - 1, valid[i].message),
             Message |-> valid[i].message, Status |-> "published",
             CreatedAt |-> valid[i].ts, ScheduledAt |-> Empty,
             PublishedAt |-> valid[i].ts, UpdatedAt |-> Empty]]

\* migrateFromLegacy
migrateFromLegacy(raw) ==
    [i \in 1..Len(raw) |->
        [ID |-> HashID(raw[i].ts, i - 1, raw[i].message),
         Message |-> raw[i].message, Status |-> "published",
         CreatedAt |-> raw[i].ts, ScheduledAt |-> Empty,
         PublishedAt |-> raw[i].ts, UpdatedAt |-> Empty]]

----------------------------------------------------------------------------
(* The store's operations on a loaded slice, at instant t *)

\* the entry Append builds before it takes the lock
NewEntry(id, message, status, scheduledAt, t) ==
    [ID |-> id, Message |-> message, Status |-> status,
     CreatedAt |-> FormatRFC3339(t),
     ScheduledAt |-> IF scheduledAt = ZeroTime THEN Empty ELSE FormatRFC3339(scheduledAt),
     PublishedAt |-> IF status = "published" THEN FormatRFC3339(t) ELSE Empty,
     UpdatedAt |-> Empty]

\* an Append that puts the new entry in front
AppendBodyInFront(es, raw, e) ==
    enforceMaxEntries(
        <<e>> \o (IF needsMigration(es, raw) THEN migrateFromLegacy(raw) ELSE es))

\* the body of Append under the lock: migrate if needed, append, evict
AppendBody(es, raw, e) ==
    enforceMaxEntries(
        Append(IF needsMigration(es, raw) THEN migrateFromLegacy(raw) ELSE es, e))

\* ClaimNextReady's test of one entry
Ready(e, t) ==
    /\ e.Status = "queued"
    /\ \/ e.ScheduledAt = Empty
       \/ ~After(ParseRFC3339(e.ScheduledAt), t)

\* a scan that takes the first queued entry, due or not
FirstQueued(es, t) == FirstWithStatus(es, "queued")

\* ClaimNextReady's scan: the first ready index, 0 when nothing is ready
FirstReady(es, t) ==
    IF \E i \in 1..Len(es) : Ready(es[i], t)
    THEN CHOOSE i \in 1..Len(es) :
            /\ Ready(es[i], t)
            /\ \A j \in 1..(i - 1) : ~Ready(es[j], t)
    ELSE 0

\* a claim that also consumes the entry's ScheduledAt
ClaimAtClearsSchedule(es, i, t) ==
    [es EXCEPT ![i].Status = "publishing", ![i].UpdatedAt = FormatRFC3339(t),
               ![i].ScheduledAt = Empty]

\* ClaimNextReady's mutation of entries[i]
ClaimAt(es, i, t) ==
    [es EXCEPT ![i].Status = "publishing", ![i].UpdatedAt = FormatRFC3339(t)]

\* the loops of MarkPublished, ResetToQueued and Remove: the first index
\* with the ID, 0 when the ID is absent
FindID(es, id) ==
    IF \E i \in 1..Len(es) : es[i].ID = id
    THEN CHOOSE i \in 1..Len(es) :
            /\ es[i].ID = id
            /\ \A j \in 1..(i - 1) : es[j].ID # id
    ELSE 0

\* a finalization that sets the status and stamps nothing
MarkStatusOnly(es, i, t) == [es EXCEPT ![i].Status = "published"]

\* MarkPublished's mutation
MarkAt(es, i, t) ==
    [es EXCEPT ![i].Status = "published",
               ![i].PublishedAt = FormatRFC3339(t),
               ![i].UpdatedAt = FormatRFC3339(t)]

\* a reset that stamps UpdatedAt and leaves the status
ResetStampOnly(es, i, t) == [es EXCEPT ![i].UpdatedAt = FormatRFC3339(t)]

\* ResetToQueued's mutation
ResetAt(es, i, t) ==
    [es EXCEPT ![i].Status = "queued", ![i].UpdatedAt = FormatRFC3339(t)]

\* a test that takes every publishing entry for stuck, whatever its age
StuckAnyAge(e, timeout, t) == e.Status = "publishing" /\ e.UpdatedAt # Empty

\* RecoverStuck's test of one entry
Stuck(e, timeout, t) ==
    /\ e.Status = "publishing"
    /\ e.UpdatedAt # Empty
    /\ t - ParseRFC3339(e.UpdatedAt) > timeout

\* a recovery that queues a copy of each stuck entry and leaves the original
RecoverByRequeue(es, timeout, t) ==
    LET stuck == SelectSeq(es, LAMBDA e : e.Status = "publishing" /\ e.UpdatedAt # Empty
                                          /\ t - e.UpdatedAt > timeout)
    IN  es \o [i \in 1..Len(stuck) |->
                [stuck[i] EXCEPT !.Status = "queued", !.UpdatedAt = FormatRFC3339(t)]]

\* a recovery that refreshes the stamp of a stuck entry and leaves it publishing
RecoverStampOnly(es, timeout, t) ==
    [i \in 1..Len(es) |->
        IF Stuck(es[i], timeout, t)
        THEN [es[i] EXCEPT !.UpdatedAt = FormatRFC3339(t)]
        ELSE es[i]]

\* RecoverStuck's loop
RecoverAll(es, timeout, t) ==
    [i \in 1..Len(es) |->
        IF Stuck(es[i], timeout, t)
        THEN [es[i] EXCEPT !.Status = "queued", !.UpdatedAt = FormatRFC3339(t)]
        ELSE es[i]]

Max(S) == CHOOSE x \in S : \A y \in S : y <= x

\* a filter that leaves out the entries being published
QueuedNotPublishing(es) == SelectSeq(es, LAMBDA e : e.Status = "queued")

\* Queued's filter
Queued(es) == SelectSeq(es, LAMBDA e : e.Status = "queued" \/ e.Status = "publishing")

\* Published's filter
Published(es) == SelectSeq(es, LAMBDA e : e.Status = "published")

\* the latest PublishedAt of any entry, whatever its status
LatestOfAnyStatus(es) ==
    Max({ZeroTime} \cup
        {ParseRFC3339(es[i].PublishedAt) :
            i \in {j \in 1..Len(es) : es[j].PublishedAt # Empty}})

\* LastPublishedTime's loop over loaded entries
LatestPublished(es) ==
    Max({ZeroTime} \cup
        {ParseRFC3339(es[i].PublishedAt) :
            i \in {j \in 1..Len(es) :
                    es[j].Status = "published" /\ es[j].PublishedAt # Empty}})


----------------------------------------------------------------------------
(* The schedule guard's policy *)

\* DefaultSchedule: 09-17, Monday to Friday
DefaultSchedule ==
    [PostEveryMinutes |-> 180, StartHour |-> 9, EndHour |-> 17,
     Weekdays |-> {"mon", "tue", "wed", "thu", "fri"}]

\* a window whose end hour is included
IsActiveAtEndInclusive(s, weekday, hour) ==
    /\ weekday \in s.Weekdays
    /\ hour >= s.StartHour
    /\ hour <= s.EndHour

\* Schedule.IsActiveAt, on the weekday and the hour of the instant
IsActiveAt(s, weekday, hour) ==
    /\ weekday \in s.Weekdays
    /\ hour >= s.StartHour
    /\ hour < s.EndHour

\* The display path's instants are minutes since a Monday 00:00, in one
\* location whose clock has no changes; these are time.Time's civil fields.
MinutesPerDay == 24 * 60

WeekdayNames == <<"mon", "tue", "wed", "thu", "fri", "sat", "sun">>

Day(t) == t \div MinutesPerDay

\* strings.ToLower(t.Weekday().String()[:3])
Weekday(t) == WeekdayNames[(Day(t) % 7) + 1]

\* t.Hour()
Hour(t) == (t % MinutesPerDay) \div 60

\* time.Date(year, month, day, hour, 0, 0, 0, location)
DateAt(day, hour) == day * MinutesPerDay + hour * 60

\* Schedule.IsActiveAt, on an instant
IsActiveAtTime(s, t) == IsActiveAt(s, Weekday(t), Hour(t))

\* Schedule.PostEvery, in minutes
PostEvery(s) == s.PostEveryMinutes

\* AdvanceToActive's loop runs at most this many times
ProbeDays == 15

\* a scan that never tries the start hour of the current day
AdvanceLoopNextDayOnly(t, s, n) ==
    DateAt(Day(t) + (CHOOSE k \in 1..8 :
                        /\ k = 8 \/ IsActiveAtTime(s, DateAt(Day(t) + k, s.StartHour))
                        /\ \A j \in 1..(k - 1) :
                              ~IsActiveAtTime(s, DateAt(Day(t) + j, s.StartHour))),
           s.StartHour)

RECURSIVE AdvanceLoop(_, _, _)
\* AdvanceToActive's loop, with n rounds left: the start hour of the current
\* day if the hour is before it, else the start hour of the next day
AdvanceLoop(t, s, n) ==
    IF n = 0
    THEN t
    ELSE IF Hour(t) < s.StartHour /\ IsActiveAtTime(s, DateAt(Day(t), s.StartHour))
         THEN DateAt(Day(t), s.StartHour)
         ELSE IF IsActiveAtTime(s, DateAt(Day(t) + 1, s.StartHour))
              THEN DateAt(Day(t) + 1, s.StartHour)
              ELSE AdvanceLoop(DateAt(Day(t) + 1, s.StartHour), s, n - 1)

\* AdvanceToActive
AdvanceToActive(t, s) ==
    IF IsActiveAtTime(s, t) THEN t ELSE AdvanceLoop(t, s, ProbeDays)

\* the fallback minimum interval between publish runs, in minutes
launchdInterval == 10

\* an interval without the timer's floor
IntervalNoFloor(s) == PostEvery(s)

\* PredictPublishTimes: interval := max(sched.PostEvery(), launchdInterval)
Interval(s) == Max({PostEvery(s), launchdInterval})

\* a start that ignores the last publication
InitialCursorNow(s, last, t) == t

\* PredictPublishTimes: the cursor before the loop
InitialCursor(s, last, t) ==
    IF last # ZeroTime /\ PostEvery(s) > 0 /\ After(last + PostEvery(s), t)
    THEN last + PostEvery(s)
    ELSE t

\* PredictPublishTimes: an entry scheduled after the cursor moves the cursor
JumpTo(e, cursor) ==
    IF e.ScheduledAt # Empty /\ After(ParseRFC3339(e.ScheduledAt), cursor)
    THEN ParseRFC3339(e.ScheduledAt)
    ELSE cursor

\* a prediction that is never flagged
MakePredictionExact(e, i, cursor) ==
    [Entry |-> e, Position |-> i, PublishAt |-> cursor, Approximate |-> FALSE]

\* PredictPublishTimes: the Prediction of the entry at 1-based position i
MakePrediction(e, i, cursor) ==
    [Entry |-> e, Position |-> i, PublishAt |-> cursor, Approximate |-> i > 1]

RECURSIVE PredictFrom(_, _, _, _)
\* PredictPublishTimes' loop, from position i on
PredictFrom(es, s, cursor, i) ==
    IF i > Len(es)
    THEN <<>>
    ELSE LET c == AdvanceToActive(JumpTo(es[i], cursor), s)
         IN  <<MakePrediction(es[i], i, c)>> \o PredictFrom(es, s, c + Interval(s), i + 1)

\* PredictPublishTimes
PredictPublishTimes(es, s, last, t) ==
    IF Len(es) = 0 THEN <<>> ELSE PredictFrom(es, s, InitialCursor(s, last, t), 1)

\* the civil times of a run (a run of the model spans seconds: the weekday
\* and the hour of the wall clock are an input of the run)
CivilTimes == {<<"mon", 8>>, <<"mon", 9>>, <<"mon", 17>>, <<"sat", 10>>}

\* a civil time inside the default schedule
ActiveTime == <<"mon", 9>>

----------------------------------------------------------------------------
(* The lock *)

\* a lock that does not exclude: the read-modify-write of the store before it
\* had a lock file
CanLockNoExclusion(p) == TRUE

\* flock.Lock returns only when no other process holds the lock
CanLock(p) == lock = {}

\* the processes run the same code: they are numbered in the order they start
InOrder(p) == \A q \in 1..(p - 1) : pc[q] # "idle"

\* the stages that are a store operation, run under withLock
LockStages ==
    {"append", "claim", "recover", "migrate", "RECOVER_STUCK", "CLAIM", "FINALIZE", "RESET",
     "QUEUED_MIGRATE", "LAST_MIGRATE", "remove", "clear_published", "clear_all", "mark",
     "reset", "view_migrate"}

\* withLock up to fn, and fn's loadFromDisk
Lock(p) ==
    /\ pc[p] \in LockStages
    /\ p \notin lock
    /\ CanLock(p)
    /\ lock' = lock \cup {p}
    /\ loaded' = [loaded EXCEPT ![p] = disk]
    /\ UNCHANGED <<disk, now, pc, call, entry, outcome, sends, minInterval, disk0, civil, nextEligible, tmp, result, schedVars, ret, arg, claimedAt>>

----------------------------------------------------------------------------
(* Calls of the store by the CLI's commands *)

\* generateID: any 4 bytes the random source gives
generateID == IDs

\* the scheduledAt arguments: none, or an instant
ScheduledArgs == {ZeroTime, StoreNow + 1}

\* Append up to withLock, with scheduledAt among args: the entry is built
\* before the lock is taken
AppendCall(p, args) ==
    /\ pc[p] = "idle"
    /\ InOrder(p)
    /\ \E id \in generateID, status \in {"queued", "published"}, at \in args :
          /\ entry' = [entry EXCEPT ![p] = NewEntry(id, p, status, at, now)]
          /\ arg' = [arg EXCEPT ![p] = at]
    /\ pc' = [pc EXCEPT ![p] = "append"]
    /\ call' = [call EXCEPT ![p] = "append"]
    /\ UNCHANGED <<disk, lock, now, loaded, outcome, sends, minInterval, disk0, civil, nextEligible, tmp, result, schedVars, ret, claimedAt>>

\* Append called with no scheduledAt or with one on a whole second
CallAppend(p) == AppendCall(p, ScheduledArgs)

\* Append called as `post --at` does: scheduledAt may be now plus a duration,
\* which is on no whole second
CallAppendAt(p) == AppendCall(p, ScheduledArgs \cup {StoreNow + 2})

\* Append's fn: append, evict, persist, unlock
AppendEntry(p) ==
    /\ pc[p] = "append"
    /\ p \in lock
    /\ disk' = atomicWrite(AppendBody(loadFromDisk(loaded[p]), loaded[p], entry[p]))
    /\ lock' = lock \ {p}
    /\ loaded' = [loaded EXCEPT ![p] = <<>>]
    /\ pc' = [pc EXCEPT ![p] = "done"]
    /\ UNCHANGED <<call, now, entry, outcome, sends, minInterval, disk0, civil, nextEligible, tmp, result, schedVars, ret, arg, claimedAt>>

\* the document Append persists: what atomicWrite marshals
WriteData(p) == atomicWrite(AppendBody(loadFromDisk(loaded[p]), loaded[p], entry[p]))

\* a write that truncates the document itself instead of a temp file
OpenDocumentInPlace(p) ==
    /\ pc[p] = "append"
    /\ p \in lock
    /\ disk' = <<>>
    /\ tmp' = [exists |-> TRUE, bytes |-> <<>>]
    /\ pc' = [pc EXCEPT ![p] = "write_tmp"]
    /\ UNCHANGED <<lock, now, call, loaded, entry, outcome, sends, minInterval, disk0, civil, nextEligible, result, schedVars, ret, arg, claimedAt>>

\* atomicWrite, step by step. os.WriteFile(tmp) opens the temp file,
\* creating it or truncating the one a killed writer left
OpenTemp(p) ==
    /\ pc[p] = "append"
    /\ p \in lock
    /\ tmp' = [exists |-> TRUE, bytes |-> <<>>]
    /\ pc' = [pc EXCEPT ![p] = "write_tmp"]
    /\ UNCHANGED <<disk, lock, now, call, loaded, entry, outcome, sends, minInterval, disk0, civil, nextEligible, result, schedVars, ret, arg, claimedAt>>

\* os.WriteFile(tmp) writes the next part of the data
WriteTemp(p) ==
    /\ pc[p] = "write_tmp"
    /\ Len(tmp.bytes) < Len(WriteData(p))
    /\ tmp' = [tmp EXCEPT !.bytes = Append(@, WriteData(p)[Len(@) + 1])]
    /\ UNCHANGED <<disk, lock, now, pc, call, loaded, entry, outcome, sends, minInterval, disk0, civil, nextEligible, result, schedVars, ret, arg, claimedAt>>

\* os.Rename(tmp, path) once the data is written; fn returns, the lock is released
RenameTemp(p) ==
    /\ pc[p] = "write_tmp"
    /\ Len(tmp.bytes) = Len(WriteData(p))
    /\ disk' = tmp.bytes
    /\ tmp' = NoFile
    /\ lock' = lock \ {p}
    /\ loaded' = [loaded EXCEPT ![p] = <<>>]
    /\ pc' = [pc EXCEPT ![p] = "done"]
    /\ UNCHANGED <<now, call, entry, outcome, sends, minInterval, disk0, civil, nextEligible, result, schedVars, ret, arg, claimedAt>>

\* a call of Load
CallLoad(p) ==
    /\ pc[p] = "idle"
    /\ InOrder(p)
    /\ pc' = [pc EXCEPT ![p] = "load"]
    /\ call' = [call EXCEPT ![p] = "load"]
    /\ UNCHANGED <<disk, lock, now, loaded, entry, outcome, sends, minInterval, disk0, civil, nextEligible, tmp, result, schedVars, ret, arg, claimedAt>>

\* Load reads the document without the lock and returns its entries, unless
\* they look legacy: then it goes on to migrate under the lock
ReadFile(p) ==
    /\ pc[p] = "load"
    /\ IF needsMigration(loadFromDisk(disk), disk)
       THEN /\ pc' = [pc EXCEPT ![p] = "migrate"]
            /\ UNCHANGED result
       ELSE /\ pc' = [pc EXCEPT ![p] = "done"]
            /\ result' = [result EXCEPT ![p] = loadFromDisk(disk)]
    /\ UNCHANGED <<disk, lock, now, call, loaded, entry, outcome, sends, minInterval, disk0, civil, nextEligible, tmp, schedVars, ret, arg, claimedAt>>

\* a Load that returns the migrated entries and leaves the document as it is
MigrateWithoutWriteBack(p) ==
    /\ pc[p] = "migrate"
    /\ p \in lock
    /\ result' = [result EXCEPT ![p] =
                    IF needsMigration(loadFromDisk(loaded[p]), loaded[p])
                    THEN migrateFromLegacy(loaded[p])
                    ELSE loadFromDisk(loaded[p])]
    /\ lock' = lock \ {p}
    /\ loaded' = [loaded EXCEPT ![p] = <<>>]
    /\ pc' = [pc EXCEPT ![p] = "done"]
    /\ UNCHANGED <<disk, now, call, entry, outcome, sends, minInterval, disk0, civil, nextEligible, tmp, schedVars, ret, arg, claimedAt>>

\* a Load that, under the lock, migrates and persists the legacy document it
\* read before the lock
MigrateWhatWasRead(p) ==
    /\ pc[p] = "migrate"
    /\ p \in lock
    /\ result' = [result EXCEPT ![p] = migrateFromLegacy(disk0)]
    /\ disk' = atomicWrite(migrateFromLegacy(disk0))
    /\ lock' = lock \ {p}
    /\ loaded' = [loaded EXCEPT ![p] = <<>>]
    /\ pc' = [pc EXCEPT ![p] = "done"]
    /\ UNCHANGED <<now, call, entry, outcome, sends, minInterval, disk0, civil, nextEligible, tmp, schedVars, ret, arg, claimedAt>>

\* Load's fn under the lock: re-read, and migrate and persist unless another
\* process has migrated first
Migrate(p) ==
    /\ pc[p] = "migrate"
    /\ p \in lock
    /\ IF needsMigration(loadFromDisk(loaded[p]), loaded[p])
       THEN /\ result' = [result EXCEPT ![p] = migrateFromLegacy(loaded[p])]
            /\ disk' = atomicWrite(migrateFromLegacy(loaded[p]))
       ELSE /\ result' = [result EXCEPT ![p] = loadFromDisk(loaded[p])]
            /\ disk' = disk
    /\ lock' = lock \ {p}
    /\ loaded' = [loaded EXCEPT ![p] = <<>>]
    /\ pc' = [pc EXCEPT ![p] = "done"]
    /\ UNCHANGED <<now, call, entry, outcome, sends, minInterval, disk0, civil, nextEligible, tmp, schedVars, ret, arg, claimedAt>>

\* a direct call of ClaimNextReady
CallClaim(p) ==
    /\ pc[p] = "idle"
    /\ InOrder(p)
    /\ pc' = [pc EXCEPT ![p] = "claim"]
    /\ call' = [call EXCEPT ![p] = "claim"]
    /\ UNCHANGED <<disk, lock, now, loaded, entry, outcome, sends, minInterval, disk0, civil, nextEligible, tmp, result, schedVars, ret, arg, claimedAt>>

\* ClaimNextReady's fn: scan, claim the first ready entry, persist, unlock;
\* then, in publishOne, the branch on the result
ClaimNextReady(p) ==
    /\ pc[p] \in {"claim", "CLAIM"}
    /\ p \in lock
    /\ LET es == loadFromDisk(loaded[p])
           i == FirstReady(es, now)
       IN  /\ disk' = IF i = 0 THEN disk ELSE atomicWrite(ClaimAt(es, i, now))
           /\ entry' = [entry EXCEPT ![p] = IF i = 0 THEN NoEntry ELSE ClaimAt(es, i, now)[i]]
           /\ claimedAt' = [claimedAt EXCEPT ![p] = IF i = 0 THEN ZeroTime ELSE now]
           /\ pc' = [pc EXCEPT ![p] =
                        IF pc[p] = "claim" \/ i = 0 THEN "done" ELSE "SEND"]
           /\ outcome' = [outcome EXCEPT ![p] =
                        IF pc[p] = "CLAIM" /\ i = 0 THEN "no_queued" ELSE @]
    /\ lock' = lock \ {p}
    /\ loaded' = [loaded EXCEPT ![p] = <<>>]
    /\ UNCHANGED <<call, now, sends, minInterval, disk0, civil, nextEligible, tmp, result, schedVars, ret, arg>>


----------------------------------------------------------------------------
(* The publish orchestrator: PublishCmd.publishOne, one invocation per process *)

\* the external timer (or the user) starts an invocation
Invoke(p) ==
    /\ pc[p] = "idle"
    /\ InOrder(p)
    /\ pc' = [pc EXCEPT ![p] = "GUARD_SCHEDULE"]
    /\ call' = [call EXCEPT ![p] = "publish"]
    /\ UNCHANGED <<disk, lock, now, loaded, entry, outcome, sends, minInterval, disk0, civil, nextEligible, tmp, result, schedVars, ret, arg, claimedAt>>

\* a time guard that is bypassed: every invocation goes on
GuardScheduleBypassed(p) ==
    /\ pc[p] = "GUARD_SCHEDULE"
    /\ pc' = [pc EXCEPT ![p] = "GUARD_FREQUENCY"]
    /\ UNCHANGED <<outcome, call, disk, lock, now, loaded, entry, sends, minInterval, disk0, civil, nextEligible, tmp, result, schedVars, ret, arg, claimedAt>>

\* 3. time guard
GuardSchedule(p) ==
    /\ pc[p] = "GUARD_SCHEDULE"
    /\ IF IsActiveAt(DefaultSchedule, civil[1], civil[2])
       THEN /\ pc' = [pc EXCEPT ![p] = "GUARD_FREQUENCY"]
            /\ UNCHANGED outcome
       ELSE /\ pc' = [pc EXCEPT ![p] = "done"]
            /\ outcome' = [outcome EXCEPT ![p] = "outside_schedule"]
    /\ UNCHANGED <<call, disk, lock, now, loaded, entry, sends, minInterval, disk0, civil, nextEligible, tmp, result, schedVars, ret, arg, claimedAt>>

\* a guard that also stops an invocation exactly MinInterval after the last post
TooSoonInclusive(doc, t) ==
    /\ minInterval > 0
    /\ LatestPublished(loadFromDisk(doc)) # ZeroTime
    /\ t - LatestPublished(loadFromDisk(doc)) <= minInterval

\* whether the frequency guard stops an invocation that reads the document
\* doc at instant t
TooSoon(doc, t) ==
    /\ minInterval > 0
    /\ LatestPublished(loadFromDisk(doc)) # ZeroTime
    /\ t - LatestPublished(loadFromDisk(doc)) < minInterval

\* exitTooSoon's next_eligible: lastPublished.Add(postEvery), as RFC3339
NextEligible(doc) == FormatRFC3339(LatestPublished(loadFromDisk(doc)) + minInterval)

\* 4. frequency guard: LastPublishedTime reads the document without the lock
\* (a document in the current format: Load returns it as read)
GuardFrequency(p) ==
    /\ pc[p] = "GUARD_FREQUENCY"
    /\ ~needsMigration(loadFromDisk(disk), disk)
    /\ IF TooSoon(disk, now)
       THEN /\ pc' = [pc EXCEPT ![p] = "done"]
            /\ outcome' = [outcome EXCEPT ![p] = "too_soon"]
            /\ nextEligible' = [nextEligible EXCEPT ![p] = NextEligible(disk)]
       ELSE /\ pc' = [pc EXCEPT ![p] = "RECOVER_STUCK"]
            /\ UNCHANGED <<outcome, nextEligible>>
    /\ UNCHANGED <<call, disk, lock, now, loaded, entry, sends, minInterval, disk0, civil, tmp, result, schedVars, ret, arg, claimedAt>>

\* an orchestrator that claims without recovering first
RecoverSkipped(p) ==
    /\ pc[p] = "RECOVER_STUCK"
    /\ p \in lock
    /\ lock' = lock \ {p}
    /\ loaded' = [loaded EXCEPT ![p] = <<>>]
    /\ pc' = [pc EXCEPT ![p] = "CLAIM"]
    /\ UNCHANGED <<disk, call, now, entry, outcome, sends, minInterval, disk0, civil, nextEligible, tmp, result, schedVars, ret, arg, claimedAt>>

\* 5. RecoverStuck's fn: reset the stuck entries, persist if any changed, unlock
\* (in publishOne its error is dropped and the claim follows)
RecoverStuck(p) ==
    /\ pc[p] \in {"recover", "RECOVER_STUCK"}
    /\ p \in lock
    /\ LET es == loadFromDisk(loaded[p])
           changed == \E i \in 1..Len(es) : Stuck(es[i], StuckTimeout, now)
       IN  disk' = IF changed THEN atomicWrite(RecoverAll(es, StuckTimeout, now)) ELSE disk
    /\ lock' = lock \ {p}
    /\ loaded' = [loaded EXCEPT ![p] = <<>>]
    /\ pc' = [pc EXCEPT ![p] = IF pc[p] = "recover" THEN "done" ELSE "CLAIM"]
    /\ UNCHANGED <<call, now, entry, outcome, sends, minInterval, disk0, civil, nextEligible, tmp, result, schedVars, ret, arg, claimedAt>>

\* 7. SendWebhook: the sender answers success or failure
Send(p) ==
    /\ pc[p] = "SEND"
    /\ \E ok \in BOOLEAN :
          IF ok
          THEN /\ sends' = sends \cup
                    {[id |-> entry[p].ID, msg |-> entry[p].Message, t |-> now, by |-> p]}
               /\ pc' = [pc EXCEPT ![p] = "FINALIZE"]
          ELSE /\ sends' = sends
               /\ pc' = [pc EXCEPT ![p] = "RESET"]
    /\ UNCHANGED <<call, disk, lock, now, loaded, entry, outcome, minInterval, disk0, civil, nextEligible, tmp, result, schedVars, ret, arg, claimedAt>>

\* 8. MarkPublished's fn, called by publishOne ("FINALIZE") or on its own ("mark");
\* publishOne logs its error (the ID is absent), the outcome is ok
MarkPublished(p) ==
    /\ pc[p] \in {"FINALIZE", "mark"}
    /\ p \in lock
    /\ LET es == loadFromDisk(loaded[p])
           i == FindID(es, entry[p].ID)
       IN  /\ disk' = IF i = 0 THEN disk ELSE atomicWrite(MarkAt(es, i, now))
           /\ ret' = [ret EXCEPT ![p] =
                        [NoReturn EXCEPT !.err = IF i = 0 THEN "not found" ELSE ""]]
    /\ lock' = lock \ {p}
    /\ loaded' = [loaded EXCEPT ![p] = <<>>]
    /\ pc' = [pc EXCEPT ![p] = "done"]
    /\ outcome' = [outcome EXCEPT ![p] = IF pc[p] = "FINALIZE" THEN "ok" ELSE @]
    /\ UNCHANGED <<call, now, entry, sends, minInterval, disk0, civil, nextEligible, tmp, result, schedVars, arg, claimedAt>>

\* a finalize whose store failure is surfaced as the invocation's outcome
MarkPublishedFailsSurfaced(p) ==
    /\ pc[p] = "FINALIZE"
    /\ lock' = lock \ {p}
    /\ loaded' = [loaded EXCEPT ![p] = <<>>]
    /\ pc' = [pc EXCEPT ![p] = "done"]
    /\ outcome' = [outcome EXCEPT ![p] = "mark_failed"]
    /\ UNCHANGED <<disk, call, now, entry, sends, minInterval, disk0, civil, nextEligible, tmp, result, schedVars, ret, arg, claimedAt>>

\* 8, when the store fails (the lock, the read or the write of MarkPublished):
\* the document stays as it is, the error is logged, the outcome is ok
MarkPublishedFails(p) ==
    /\ pc[p] = "FINALIZE"
    /\ lock' = lock \ {p}
    /\ loaded' = [loaded EXCEPT ![p] = <<>>]
    /\ pc' = [pc EXCEPT ![p] = "done"]
    /\ outcome' = [outcome EXCEPT ![p] = "ok"]
    /\ UNCHANGED <<disk, call, now, entry, sends, minInterval, disk0, civil, nextEligible, tmp, result, schedVars, ret, arg, claimedAt>>

\* 7, on failure. ResetToQueued's fn, called by publishOne ("RESET") or on its own
\* ("reset"); publishOne drops its error, the outcome is webhook_failed
ResetToQueued(p) ==
    /\ pc[p] \in {"RESET", "reset"}
    /\ p \in lock
    /\ LET es == loadFromDisk(loaded[p])
           i == FindID(es, entry[p].ID)
       IN  /\ disk' = IF i = 0 THEN disk ELSE atomicWrite(ResetAt(es, i, now))
           /\ ret' = [ret EXCEPT ![p] =
                        [NoReturn EXCEPT !.err = IF i = 0 THEN "not found" ELSE ""]]
    /\ lock' = lock \ {p}
    /\ loaded' = [loaded EXCEPT ![p] = <<>>]
    /\ pc' = [pc EXCEPT ![p] = "done"]
    /\ outcome' = [outcome EXCEPT ![p] = IF pc[p] = "RESET" THEN "webhook_failed" ELSE @]
    /\ UNCHANGED <<call, now, entry, sends, minInterval, disk0, civil, nextEligible, tmp, result, schedVars, arg, claimedAt>>

\* a kill after which the dead process's lock stays held
KillKeepsLock(p) ==
    /\ pc[p] \notin {"idle", "done", "killed"}
    /\ pc' = [pc EXCEPT ![p] = "killed"]
    /\ UNCHANGED <<lock, loaded, call, disk, now, entry, outcome, sends, minInterval, disk0, civil, nextEligible, tmp, result, schedVars, ret, arg, claimedAt>>

\* the process is killed: the OS releases its lock, nothing else is undone
Kill(p) ==
    /\ pc[p] \notin {"idle", "done", "killed"}
    /\ pc' = [pc EXCEPT ![p] = "killed"]
    /\ lock' = lock \ {p}
    /\ loaded' = [loaded EXCEPT ![p] = <<>>]
    /\ UNCHANGED <<call, disk, now, entry, outcome, sends, minInterval, disk0, civil, nextEligible, tmp, result, schedVars, ret, arg, claimedAt>>

\* An instant of the window before: the code reads the clock only to compare
\* now with a stored instant (now - UpdatedAt > timeout, ScheduledAt after
\* now), so the instants are kept relative to now, and an instant that is
\* already a window old stays where it is.
Earlier(x) == IF x >= Window THEN x - Window ELSE x

EarlierDoc(doc) ==
    [i \in 1..Len(doc) |->
        [doc[i] EXCEPT !.created_at = Earlier(@), !.scheduled_at = Earlier(@),
                       !.published_at = Earlier(@), !.updated_at = Earlier(@)]]

EarlierEntry(e) ==
    [e EXCEPT !.CreatedAt = Earlier(@), !.ScheduledAt = Earlier(@),
              !.PublishedAt = Earlier(@), !.UpdatedAt = Earlier(@)]

\* time passes by a window, which is more than the stuck timeout: the clock
\* advances once, and from then on the recorded instants move back instead
TimePasses ==
    /\ IF now < Window
       THEN /\ now' = now + Window
            /\ UNCHANGED <<disk, loaded, entry, sends, nextEligible, claimedAt>>
       ELSE /\ now' = now
            /\ disk' = EarlierDoc(disk)
            /\ loaded' = [p \in Procs |-> EarlierDoc(loaded[p])]
            /\ entry' = [p \in Procs |-> EarlierEntry(entry[p])]
            /\ sends' = {[s EXCEPT !.t = Earlier(@)] : s \in sends}
            /\ nextEligible' = [p \in Procs |-> Earlier(nextEligible[p])]
            /\ claimedAt' = [p \in Procs |-> Earlier(claimedAt[p])]
    /\ UNCHANGED <<lock, pc, call, outcome, minInterval, disk0, civil, tmp, result, schedVars, ret, arg>>

\* time passes once in the run
TimePassesOnce == now < Window /\ TimePasses

\* the external timer starts the next invocation in place of one that has
\* ended or was killed
Relaunch(p) ==
    /\ pc[p] \in {"done", "killed"}
    /\ pc' = [pc EXCEPT ![p] = "GUARD_SCHEDULE"]
    /\ call' = [call EXCEPT ![p] = "publish"]
    /\ entry' = [entry EXCEPT ![p] = NoEntry]
    /\ outcome' = [outcome EXCEPT ![p] = ""]
    /\ nextEligible' = [nextEligible EXCEPT ![p] = Empty]
    /\ ret' = [ret EXCEPT ![p] = NoReturn]
    /\ claimedAt' = [claimedAt EXCEPT ![p] = ZeroTime]
    /\ UNCHANGED <<disk, lock, now, loaded, sends, minInterval, disk0, civil, tmp, result, schedVars, arg>>

\* a kill within the first second of the run
KillEarly(p) == now < KillHorizon /\ Kill(p)

\* the sender answers success
SendSucceeds(p) == Send(p) /\ pc'[p] = "FINALIZE"

\* time passes
Tick ==
    /\ now < MaxTime
    /\ now' = now + 1
    /\ UNCHANGED <<disk, lock, pc, call, loaded, entry, outcome, sends, minInterval, disk0, civil, nextEligible, tmp, result, schedVars, ret, arg, claimedAt>>

----------------------------------------------------------------------------
(* Initial documents: states the store can be in *)

\* an entry as Append and the later operations leave it, with ID i
InitKinds(i, scheds) ==
    {[id |-> i, message |-> 0, status |-> "queued", created_at |-> 0,
      scheduled_at |-> at, published_at |-> Empty, updated_at |-> Empty, ts |-> Empty]
        : at \in scheds}
    \cup
    {[id |-> i, message |-> 0, status |-> "publishing", created_at |-> 0,
      scheduled_at |-> Empty, published_at |-> Empty, updated_at |-> 0, ts |-> Empty],
     [id |-> i, message |-> 0, status |-> "published", created_at |-> 0,
      scheduled_at |-> Empty, published_at |-> 0, updated_at |-> 0, ts |-> Empty]}

\* the documents of n entries with the IDs 1..n
DocsOfLen(n, scheds) ==
    {d \in [1..n -> UNION {InitKinds(i, scheds) : i \in 1..n}] :
        \A i \in 1..n : d[i].id = i}

\* no display command runs
NoDisplay ==
    /\ sched = DefaultSchedule
    /\ instant = 0
    /\ queue = <<>>
    /\ lastPublished = ZeroTime
    /\ ran = {}
    /\ active = FALSE
    /\ advanced = 0
    /\ predictions = <<>>

InitProcs ==
    /\ lock = {}
    /\ pc = [p \in Procs |-> "idle"]
    /\ call = [p \in Procs |-> ""]
    /\ loaded = [p \in Procs |-> <<>>]
    /\ entry = [p \in Procs |-> NoEntry]
    /\ outcome = [p \in Procs |-> ""]
    /\ nextEligible = [p \in Procs |-> Empty]
    /\ tmp = NoFile
    /\ result = [p \in Procs |-> <<>>]
    /\ ret = [p \in Procs |-> NoReturn]
    /\ arg = [p \in Procs |-> ZeroTime]
    /\ claimedAt = [p \in Procs |-> ZeroTime]
    /\ sends = {}
    /\ disk0 = disk

InitLocals == InitProcs /\ NoDisplay

\* concurrent orchestrator invocations
Init ==
    /\ disk \in UNION {DocsOfLen(n, {Empty, TicksPerSecond}) : n \in 0..MaxInit}
    /\ now = 0
    /\ minInterval \in {0, TicksPerSecond}
    /\ civil \in CivilTimes
    /\ InitLocals

Next ==
    \/ \E p \in Procs : Invoke(p)
    \/ \E p \in Procs : GuardSchedule(p)
    \/ \E p \in Procs : GuardFrequency(p)
    \/ \E p \in Procs : Lock(p)
    \/ \E p \in Procs : RecoverStuck(p)
    \/ \E p \in Procs : ClaimNextReady(p)
    \/ \E p \in Procs : Send(p)
    \/ \E p \in Procs : MarkPublished(p)
    \/ \E p \in Procs : ResetToQueued(p)
    \/ \E p \in Procs : Kill(p)
    \/ Tick

Spec == Init /\ [][Next]_vars

\* concurrent direct calls of ClaimNextReady, at one instant
InitClaim ==
    /\ disk \in UNION {DocsOfLen(n, {Empty, StoreNow - 1, StoreNow + 1}) : n \in 0..maxEntries}
    /\ now = StoreNow
    /\ minInterval = 0
    /\ civil = ActiveTime
    /\ InitLocals

NextClaim ==
    \/ \E p \in Procs : CallClaim(p)
    \/ \E p \in Procs : Lock(p)
    \/ \E p \in Procs : ClaimNextReady(p)

SpecClaim == InitClaim /\ [][NextClaim]_vars

\* concurrent direct calls of Append and ClaimNextReady, at one instant
InitStore ==
    /\ disk \in UNION {DocsOfLen(n, {Empty}) : n \in 0..maxEntries}
                \cup {<<LegacyObject(0, 1)>>, <<LegacyObject(0, 1), LegacyObject(2, 1)>>}
    /\ now = StoreNow
    /\ minInterval = 0
    /\ civil = ActiveTime
    /\ InitLocals

NextStore ==
    \/ \E p \in Procs : CallAppend(p)
    \/ \E p \in Procs : CallClaim(p)
    \/ \E p \in Procs : Lock(p)
    \/ \E p \in Procs : AppendEntry(p)
    \/ \E p \in Procs : ClaimNextReady(p)

SpecStore == InitStore /\ [][NextStore]_vars


\* the instants of an invocation: within MinInterval of a publication at the
\* start, exactly MinInterval after it, and past the stuck timeout
InvokeNows == {TicksPerSecond - 1, TicksPerSecond, StuckTimeout + 1}

\* concurrent orchestrator invocations at one instant, with a store that may
\* fail in the finalize
InitInvoke ==
    /\ disk \in UNION {DocsOfLen(n, {Empty, TicksPerSecond}) : n \in 0..MaxInit}
    /\ now \in InvokeNows
    /\ minInterval \in {0, TicksPerSecond}
    /\ civil \in CivilTimes
    /\ InitLocals

NextInvoke ==
    \/ \E p \in Procs : Invoke(p)
    \/ \E p \in Procs : GuardSchedule(p)
    \/ \E p \in Procs : GuardFrequency(p)
    \/ \E p \in Procs : Lock(p)
    \/ \E p \in Procs : RecoverStuck(p)
    \/ \E p \in Procs : ClaimNextReady(p)
    \/ \E p \in Procs : Send(p)
    \/ \E p \in Procs : MarkPublished(p)
    \/ \E p \in Procs : MarkPublishedFails(p)
    \/ \E p \in Procs : ResetToQueued(p)

SpecInvoke == InitInvoke /\ [][NextInvoke]_vars

\* invocations that keep occurring inside the schedule, with no minimum
\* interval, while time passes; processes are killed only early in the run
InitLive ==
    /\ disk \in UNION {DocsOfLen(n, {Empty, TicksPerSecond}) : n \in 0..MaxInit}
    /\ now = TicksPerSecond - 1
    /\ minInterval = 0
    /\ civil = ActiveTime
    /\ InitLocals

NextLive ==
    \/ \E p \in Procs : Invoke(p)
    \/ \E p \in Procs : Relaunch(p)
    \/ \E p \in Procs : GuardSchedule(p)
    \/ \E p \in Procs : GuardFrequency(p)
    \/ \E p \in Procs : Lock(p)
    \/ \E p \in Procs : RecoverStuck(p)
    \/ \E p \in Procs : ClaimNextReady(p)
    \/ \E p \in Procs : Send(p)
    \/ \E p \in Procs : MarkPublished(p)
    \/ \E p \in Procs : ResetToQueued(p)
    \/ \E p \in Procs : KillEarly(p)
    \/ TimePassesOnce

\* a step of the invocation of p, outside the acquisition of the lock
Proceeds(p) ==
    \/ Invoke(p)
    \/ Relaunch(p)
    \/ GuardSchedule(p)
    \/ GuardFrequency(p)
    \/ RecoverStuck(p)
    \/ ClaimNextReady(p)
    \/ Send(p)
    \/ MarkPublished(p)
    \/ ResetToQueued(p)

\* every process that is not killed goes on, the lock is granted to a process
\* that keeps asking for it, the timer keeps starting invocations, time
\* passes, and the sender succeeds if it is called again and again
FairProcs ==
    \A p \in Procs :
        /\ WF_vars(Proceeds(p))
        /\ SF_vars(Lock(p))
        /\ SF_vars(SendSucceeds(p))

FairLive == WF_vars(TimePassesOnce) /\ FairProcs

SpecLive == InitLive /\ [][NextLive]_vars /\ FairLive

\* the stores that n Appends of queued entries leave: the i-th entry carries
\* the i-th message and the ID that generateID drew for it
AppendedDocs(n) ==
    {d \in [1..n -> [id : generateID, message : 1..n, status : {"queued"},
                     created_at : {0}, scheduled_at : {Empty}, published_at : {Empty},
                     updated_at : {Empty}, ts : {Empty}]] :
        \A i \in 1..n : d[i].message = i}

\* the timer's invocations over a store of appended entries
InitQueue ==
    /\ disk \in UNION {AppendedDocs(n) : n \in 0..MaxInit}
    /\ now = TicksPerSecond - 1
    /\ minInterval = 0
    /\ civil = ActiveTime
    /\ InitLocals

\* the invocations of the timer run one after the other
TimerProcs == {1}

NextQueue ==
    \/ \E p \in TimerProcs : Invoke(p)
    \/ \E p \in TimerProcs : Relaunch(p)
    \/ \E p \in TimerProcs : GuardSchedule(p)
    \/ \E p \in TimerProcs : GuardFrequency(p)
    \/ \E p \in TimerProcs : Lock(p)
    \/ \E p \in TimerProcs : RecoverStuck(p)
    \/ \E p \in TimerProcs : ClaimNextReady(p)
    \/ \E p \in TimerProcs : Send(p)
    \/ \E p \in TimerProcs : MarkPublished(p)
    \/ \E p \in TimerProcs : ResetToQueued(p)
    \/ \E p \in TimerProcs : KillEarly(p)
    \/ TimePasses

\* as FairLive, with time that passes again and again
FairQueue ==
    /\ WF_vars(TimePasses)
    /\ \A p \in TimerProcs :
          /\ WF_vars(Proceeds(p))
          /\ SF_vars(Lock(p))
          /\ SF_vars(SendSucceeds(p))

SpecQueue == InitQueue /\ [][NextQueue]_vars /\ FairQueue

\* Appends whose write goes step by step, Loads that read without the lock,
\* and kills at any point
InitWrite ==
    /\ disk \in UNION {DocsOfLen(n, {Empty}) : n \in 0..MaxInit}
    /\ now = StoreNow
    /\ minInterval = 0
    /\ civil = ActiveTime
    /\ InitLocals

NextWrite ==
    \/ \E p \in Procs : CallAppend(p)
    \/ \E p \in Procs : CallLoad(p)
    \/ \E p \in Procs : ReadFile(p)
    \/ \E p \in Procs : Lock(p)
    \/ \E p \in Procs : OpenTemp(p)
    \/ \E p \in Procs : WriteTemp(p)
    \/ \E p \in Procs : RenameTemp(p)
    \/ \E p \in Procs : Kill(p)

SpecWrite == InitWrite /\ [][NextWrite]_vars

\* the legacy documents of n records: every record has a message, and a ts
\* that is one of two seconds
LegacyDocs(n) == [1..n -> {LegacyObject(ts, 0) : ts \in {0, TicksPerSecond}}]

\* concurrent Load, Append and ClaimNextReady calls, with kills, on a legacy
\* document or on a document in the current format
InitOps ==
    /\ disk \in UNION {LegacyDocs(n) : n \in 1..MaxInit}
                \cup UNION {DocsOfLen(n, {Empty}) : n \in 0..1}
    /\ now = StoreNow
    /\ minInterval = 0
    /\ civil = ActiveTime
    /\ InitLocals

NextOps ==
    \/ \E p \in Procs : CallLoad(p)
    \/ \E p \in Procs : CallAppend(p)
    \/ \E p \in Procs : CallClaim(p)
    \/ \E p \in Procs : ReadFile(p)
    \/ \E p \in Procs : Lock(p)
    \/ \E p \in Procs : Migrate(p)
    \/ \E p \in Procs : AppendEntry(p)
    \/ \E p \in Procs : ClaimNextReady(p)
    \/ \E p \in Procs : Kill(p)

\* a step of the operation p runs: a process that is not killed goes on, and
\* the blocking flock returns once the lock stays free
Runs(p) ==
    \/ ReadFile(p)
    \/ Lock(p)
    \/ Migrate(p)
    \/ AppendEntry(p)
    \/ ClaimNextReady(p)

FairOps == \A p \in Procs : WF_vars(Runs(p))

SpecOps == InitOps /\ [][NextOps]_vars /\ FairOps

\* the records of a legacy file: a ts or none, a message or none
LegacyRecords == {LegacyObject(ts, msg) : ts \in {Empty, 0, TicksPerSecond}, msg \in {Empty, 0, 1}}

\* Loads, one after another or concurrently, of a file of legacy records
InitMigrate ==
    /\ disk \in UNION {[1..n -> LegacyRecords] : n \in 1..MaxInit}
    /\ now = StoreNow
    /\ minInterval = 0
    /\ civil = ActiveTime
    /\ InitLocals

NextMigrate ==
    \/ \E p \in Procs : CallLoad(p)
    \/ \E p \in Procs : ReadFile(p)
    \/ \E p \in Procs : Lock(p)
    \/ \E p \in Procs : Migrate(p)

SpecMigrate == InitMigrate /\ [][NextMigrate]_vars

\* the variables of the store and of its callers
storeVars ==
    <<disk, lock, now, pc, call, loaded, entry, outcome, sends, minInterval, disk0, civil,
      nextEligible, tmp, result, ret, arg, claimedAt>>

\* the display path asks whether the schedule is active at the instant
CallIsActiveAt ==
    /\ "IsActiveAt" \notin ran
    /\ active' = IsActiveAtTime(sched, instant)
    /\ ran' = ran \cup {"IsActiveAt"}
    /\ UNCHANGED <<storeVars, sched, instant, queue, lastPublished, advanced, predictions>>

\* the display path asks for the next active instant
CallAdvanceToActive ==
    /\ "AdvanceToActive" \notin ran
    /\ advanced' = AdvanceToActive(instant, sched)
    /\ ran' = ran \cup {"AdvanceToActive"}
    /\ UNCHANGED <<storeVars, sched, instant, queue, lastPublished, active, predictions>>

\* the display path predicts the publish times of the queued entries
CallPredictPublishTimes ==
    /\ "PredictPublishTimes" \notin ran
    /\ predictions' = PredictPublishTimes(queue, sched, lastPublished, instant)
    /\ ran' = ran \cup {"PredictPublishTimes"}
    /\ UNCHANGED <<storeVars, sched, instant, queue, lastPublished, active, advanced>>

AllWeekdays == {WeekdayNames[i] : i \in 1..7}

\* schedules: the default one and others, among them some that are never active
Schedules ==
    [PostEveryMinutes : {0, 180}, StartHour : {0, 9}, EndHour : {9, 17, 24},
     Weekdays : {{}, {"wed"}, DefaultSchedule.Weekdays, AllWeekdays}]

\* instants of the second week: Monday, Wednesday, Friday, Saturday, Sunday,
\* around the bounds of the hours
Instants ==
    {DateAt(7 + d, h) + m : d \in {0, 2, 4, 5, 6}, h \in {0, 8, 9, 10, 16, 17, 18, 23},
                            m \in {0, 59}}

\* no store, no process: only the display path runs
NoStore ==
    /\ disk = <<>>
    /\ now = 0
    /\ minInterval = 0
    /\ civil = ActiveTime
    /\ InitProcs

\* the schedule's functions, on any schedule and instant
InitSchedule ==
    /\ sched \in Schedules
    /\ instant \in Instants
    /\ queue = <<>>
    /\ lastPublished = ZeroTime
    /\ ran = {}
    /\ active = FALSE
    /\ advanced = 0
    /\ predictions = <<>>
    /\ NoStore

NextSchedule == CallIsActiveAt \/ CallAdvanceToActive

SpecSchedule == InitSchedule /\ [][NextSchedule]_vars

\* a queued entry at position i, scheduled or not
QueuedEntry(i, scheduledAt) ==
    [ID |-> i, Message |-> i, Status |-> "queued", CreatedAt |-> 0,
     ScheduledAt |-> scheduledAt, PublishedAt |-> Empty, UpdatedAt |-> Empty]

\* the queues of n entries: each not scheduled, or scheduled an hour before
\* the instant, or five hours after it
Queues(n, t) ==
    {[i \in 1..n |-> QueuedEntry(i, f[i])] : f \in [1..n -> {Empty, t - 60, t + 300}]}

\* the schedules that are active at some time
ValidSchedules == {s \in Schedules : s.StartHour < s.EndHour /\ s.Weekdays # {}}

\* instants: Monday, Friday and Saturday, at the start, inside, near the end
\* and after the end of the default hours
PredictInstants ==
    {DateAt(7 + d, h) + m : d \in {0, 4, 5}, h \in {9, 10, 16, 18}, m \in {0, 55}}

\* the predictor, on any valid schedule, instant, last publication and queue
InitPredict ==
    /\ sched \in ValidSchedules
    /\ instant \in PredictInstants
    /\ queue \in UNION {Queues(n, instant) : n \in 0..(MaxInit + 1)}
    /\ lastPublished \in {ZeroTime, instant - 30, instant - 180}
    /\ ran = {}
    /\ active = FALSE
    /\ advanced = 0
    /\ predictions = <<>>
    /\ NoStore

NextPredict == CallPredictPublishTimes

SpecPredict == InitPredict /\ [][NextPredict]_vars

----------------------------------------------------------------------------
(* The display command: queue show *)

\* The store's run spans seconds of the wall clock whose weekday and hour are
\* `civil`; the display path counts minutes: a stored instant of the run, in
\* the display path's unit. An empty stamp and the zero time stay what they are.
CivilInstant ==
    DateAt(6 + (CHOOSE i \in 1..7 : WeekdayNames[i] = civil[1]), civil[2])

ToMinutes(t) ==
    IF t \in {Empty, ZeroTime} THEN t ELSE CivilInstant + (t \div (60 * TicksPerSecond))

\* the entry as the predictor reads it
DisplayEntry(e) == [e EXCEPT !.ScheduledAt = ToMinutes(@)]

\* QueueShowCmd.Run up to history.Queued; one display command runs at a time
CallShow(p) ==
    /\ pc[p] = "idle"
    /\ InOrder(p)
    /\ \A q \in Procs : call[q] # "show"
    /\ pc' = [pc EXCEPT ![p] = "QUEUED"]
    /\ call' = [call EXCEPT ![p] = "show"]
    /\ UNCHANGED <<disk, lock, now, loaded, entry, outcome, sends, minInterval, disk0, civil, nextEligible, tmp, result, schedVars, ret, arg, claimedAt>>

\* a Queued that stores its filtered view
ShowQueuedWritesView(p) ==
    /\ pc[p] = "QUEUED"
    /\ result' = [result EXCEPT ![p] = Queued(loadFromDisk(disk))]
    /\ disk' = atomicWrite(Queued(loadFromDisk(disk)))
    /\ pc' = [pc EXCEPT ![p] = "LAST_PUBLISHED"]
    /\ UNCHANGED <<lock, now, call, loaded, entry, outcome, sends, minInterval, disk0, civil, nextEligible, tmp, schedVars, ret, arg, claimedAt>>

\* Queued: Load's read without the lock, then the filter, unless the
\* document looks legacy
ShowQueued(p) ==
    /\ pc[p] = "QUEUED"
    /\ IF needsMigration(loadFromDisk(disk), disk)
       THEN /\ pc' = [pc EXCEPT ![p] = "QUEUED_MIGRATE"]
            /\ UNCHANGED result
       ELSE /\ pc' = [pc EXCEPT ![p] = "LAST_PUBLISHED"]
            /\ result' = [result EXCEPT ![p] = Queued(loadFromDisk(disk))]
    /\ UNCHANGED <<disk, lock, now, call, loaded, entry, outcome, sends, minInterval, disk0, civil, nextEligible, tmp, schedVars, ret, arg, claimedAt>>

\* LastPublishedTime: Load's read without the lock, then the maximum
ShowLastPublished(p) ==
    /\ pc[p] = "LAST_PUBLISHED"
    /\ IF needsMigration(loadFromDisk(disk), disk)
       THEN /\ pc' = [pc EXCEPT ![p] = "LAST_MIGRATE"]
            /\ UNCHANGED lastPublished
       ELSE /\ pc' = [pc EXCEPT ![p] = "PREDICT"]
            /\ lastPublished' = ToMinutes(LatestPublished(loadFromDisk(disk)))
    /\ UNCHANGED <<disk, lock, now, call, loaded, entry, outcome, sends, minInterval, disk0, civil, nextEligible, tmp, result, sched, instant, queue, ran, active, advanced, predictions, ret, arg, claimedAt>>

\* Load's fn under the lock, in Queued and in LastPublishedTime: re-read,
\* migrate and persist unless another process has migrated first
ShowMigrate(p) ==
    /\ pc[p] \in {"QUEUED_MIGRATE", "LAST_MIGRATE"}
    /\ p \in lock
    /\ LET legacy == needsMigration(loadFromDisk(loaded[p]), loaded[p])
           entries == IF legacy THEN migrateFromLegacy(loaded[p]) ELSE loadFromDisk(loaded[p])
       IN  /\ disk' = IF legacy THEN atomicWrite(entries) ELSE disk
           /\ IF pc[p] = "QUEUED_MIGRATE"
              THEN /\ result' = [result EXCEPT ![p] = Queued(entries)]
                   /\ pc' = [pc EXCEPT ![p] = "LAST_PUBLISHED"]
                   /\ UNCHANGED lastPublished
              ELSE /\ lastPublished' = ToMinutes(LatestPublished(entries))
                   /\ pc' = [pc EXCEPT ![p] = "PREDICT"]
                   /\ UNCHANGED result
    /\ lock' = lock \ {p}
    /\ loaded' = [loaded EXCEPT ![p] = <<>>]
    /\ UNCHANGED <<now, call, entry, outcome, sends, minInterval, disk0, civil, nextEligible, tmp, sched, instant, queue, ran, active, advanced, predictions, ret, arg, claimedAt>>

\* QueueShowCmd.Run: now := time.Now().UTC(), then PredictPublishTimes
ShowPredict(p) ==
    /\ pc[p] = "PREDICT"
    /\ instant' = ToMinutes(now)
    /\ queue' = [i \in 1..Len(result[p]) |-> DisplayEntry(result[p][i])]
    /\ predictions' =
          PredictPublishTimes([i \in 1..Len(result[p]) |-> DisplayEntry(result[p][i])],
                              sched, lastPublished, ToMinutes(now))
    /\ ran' = ran \cup {"PredictPublishTimes"}
    /\ pc' = [pc EXCEPT ![p] = "done"]
    /\ UNCHANGED <<disk, lock, now, call, loaded, entry, outcome, sends, minInterval, disk0, civil, nextEligible, tmp, result, sched, lastPublished, active, advanced, ret, arg, claimedAt>>

\* the display command next to writers, on legacy documents and on documents
\* in the current format
InitShow ==
    /\ disk \in UNION {LegacyDocs(n) : n \in 1..MaxInit}
                \cup UNION {DocsOfLen(n, {Empty, StoreNow + 1}) : n \in 0..MaxInit}
    /\ now = StoreNow
    /\ minInterval = 0
    /\ civil = ActiveTime
    /\ InitLocals

NextShow ==
    \/ \E p \in Procs : CallShow(p)
    \/ \E p \in Procs : ShowQueued(p)
    \/ \E p \in Procs : ShowLastPublished(p)
    \/ \E p \in Procs : ShowMigrate(p)
    \/ \E p \in Procs : ShowPredict(p)
    \/ \E p \in Procs : Lock(p)
    \/ \E p \in Procs : CallAppend(p)
    \/ \E p \in Procs : AppendEntry(p)
    \/ \E p \in Procs : CallClaim(p)
    \/ \E p \in Procs : ClaimNextReady(p)
    \/ \E p \in Procs : Kill(p)

SpecShow == InitShow /\ [][NextShow]_vars

\* a direct call of RecoverStuck
CallRecover(p) ==
    /\ pc[p] = "idle"
    /\ InOrder(p)
    /\ pc' = [pc EXCEPT ![p] = "recover"]
    /\ call' = [call EXCEPT ![p] = "recover"]
    /\ UNCHANGED <<disk, lock, now, loaded, entry, outcome, sends, minInterval, disk0, civil, nextEligible, tmp, result, schedVars, ret, arg, claimedAt>>

\* the stamps of the entries RecoverStuck meets: a whole second, old or recent
RecoverStamps == {0, TicksPerSecond}

\* an entry as the operations leave it: never claimed, reset, claimed, published
RecoverKinds(i) ==
    {[id |-> i, message |-> 0, status |-> "queued", created_at |-> 0,
      scheduled_at |-> Empty, published_at |-> Empty, updated_at |-> Empty, ts |-> Empty]}
    \cup
    {[id |-> i, message |-> 0, status |-> st, created_at |-> 0,
      scheduled_at |-> Empty, published_at |-> Empty, updated_at |-> u, ts |-> Empty]
        : st \in {"queued", "publishing"}, u \in RecoverStamps}
    \cup
    {[id |-> i, message |-> 0, status |-> "published", created_at |-> 0,
      scheduled_at |-> Empty, published_at |-> u, updated_at |-> u, ts |-> Empty]
        : u \in RecoverStamps}

\* concurrent direct calls of RecoverStuck, at one instant: just past the
\* timeout for the old stamp, or at the timeout for the recent one
InitRecover ==
    /\ disk \in UNION {{d \in [1..n -> UNION {RecoverKinds(i) : i \in 1..n}] :
                            \A i \in 1..n : d[i].id = i} : n \in 0..MaxInit}
    /\ now \in {StuckTimeout + 1, StuckTimeout + TicksPerSecond}
    /\ minInterval = 0
    /\ civil = ActiveTime
    /\ InitLocals

NextRecover ==
    \/ \E p \in Procs : CallRecover(p)
    \/ \E p \in Procs : Lock(p)
    \/ \E p \in Procs : RecoverStuck(p)

SpecRecover == InitRecover /\ [][NextRecover]_vars

\* enforceMaxEntries applied to a slice as Append hands it over: the stored
\* entries and the appended one, whatever its status
Enforce(p) ==
    /\ pc[p] = "idle"
    /\ InOrder(p)
    /\ disk' = atomicWrite(enforceMaxEntries(loadFromDisk(disk)))
    /\ pc' = [pc EXCEPT ![p] = "done"]
    /\ call' = [call EXCEPT ![p] = "enforce"]
    /\ UNCHANGED <<lock, now, loaded, entry, outcome, sends, minInterval, disk0, civil, nextEligible, tmp, result, schedVars, ret, arg, claimedAt>>

\* the slices enforceMaxEntries is given: at most one entry over the cap
InitEvict ==
    /\ disk \in UNION {DocsOfLen(n, {Empty}) : n \in 0..(maxEntries + 1)}
    /\ now = StoreNow
    /\ minInterval = 0
    /\ civil = ActiveTime
    /\ InitLocals

NextEvict == \E p \in Procs : Enforce(p)

SpecEvict == InitEvict /\ [][NextEvict]_vars

----------------------------------------------------------------------------
(* Claims on the store under concurrent calls (SpecClaim, SpecStore) *)

Min(a, b) == IF a <= b THEN a ELSE b

Claimers == {p \in Procs : call[p] = "claim"}
Appenders == {p \in Procs : call[p] = "append"}
Returned(p) == pc[p] = "done"
Winners == {p \in Claimers : Returned(p) /\ entry[p] # NoEntry}

\* the eligible entries of the document the calls started from
Eligible0 ==
    {i \in 1..Len(disk0) :
        /\ disk0[i].status = "queued"
        /\ (disk0[i].scheduled_at = Empty \/ disk0[i].scheduled_at <= now)}

\* C1: N concurrent ClaimNextReady calls against K eligible entries, with no
\* append in between: once all have returned, exactly min(N, K) of them
\* returned an entry, and the returned entries are pairwise distinct.
C1_ClaimsAreMinNK ==
    (Appenders = {} /\ \A p \in Claimers : Returned(p)) =>
        /\ Cardinality(Winners) = Min(Cardinality(Claimers), Cardinality(Eligible0))
        /\ \A p, q \in Winners : p # q => entry[p].ID # entry[q].ID

C1_Witness ==
    /\ Appenders = {}
    /\ Cardinality(Claimers) >= 2
    /\ \A p \in Claimers : Returned(p)
    /\ Cardinality(Winners) >= 2
    /\ Cardinality(Eligible0) > Cardinality(Winners)

\* the step in which p's ClaimNextReady returns
ClaimReturns(p) == pc[p] \in {"claim", "CLAIM"} /\ p \in lock /\ p \notin lock'

\* C2: ClaimNextReady claims the first entry in stored order that is queued
\* and has no ScheduledAt or one that is not in the future; it returns none,
\* and writes nothing, when there is no such entry; entries that are
\* publishing, published or scheduled for later are passed over.
C2_ClaimIsFirstEligible ==
    [][\A p \in Procs : ClaimReturns(p) =>
        LET elig == {i \in 1..Len(disk) :
                        /\ disk[i].status = "queued"
                        /\ (disk[i].scheduled_at = Empty \/ disk[i].scheduled_at <= now)}
        IN  IF elig = {}
            THEN entry'[p] = NoEntry /\ disk' = disk
            ELSE LET i == CHOOSE k \in elig : \A j \in elig : k <= j
                 IN  /\ entry'[p].ID = disk[i].id
                     /\ entry'[p].Status = "publishing"
                     /\ Len(disk') = Len(disk)
                     /\ disk'[i].status = "publishing"
                     /\ \A j \in 1..Len(disk) : j # i => disk'[j] = disk[j]]_vars

\* a claim that passed over a published entry and an entry scheduled for later
C2_Witness ==
    \E p \in Claimers :
        /\ Returned(p)
        /\ Appenders = {}
        /\ Len(disk0) >= 3
        /\ disk0[1].status = "published"
        /\ disk0[2].status = "queued" /\ disk0[2].scheduled_at > now
        /\ entry[p].ID = disk0[3].id

\* C6 (as claimed): no two stored entries have the same ID.
C6_UniqueIDs ==
    \A i, j \in 1..Len(disk) :
        (i # j /\ disk[i].id # Empty) => disk[i].id # disk[j].id

\* the fields of a stored entry that no operation changes
SameEntry(o, e) ==
    /\ o.id = e.id
    /\ o.message = e.message
    /\ o.created_at = e.created_at
    /\ o.scheduled_at = e.scheduled_at

\* C9: once N concurrent Append calls and any concurrent ClaimNextReady calls
\* have all returned, and the cap was not exceeded, the store holds every
\* entry it held before, in the same order, followed by exactly N new
\* entries, each appended entry exactly once.
C9_NoLostUpdate ==
    (/\ \A p \in Procs : pc[p] \in {"idle", "done"}
     /\ ~needsMigration(loadFromDisk(disk0), disk0)
     /\ Len(disk0) + Cardinality(Appenders) <= maxEntries) =>
        /\ Len(disk) = Len(disk0) + Cardinality(Appenders)
        /\ \A i \in 1..Len(disk0) : SameEntry(disk[i], disk0[i])
        /\ \A p \in Appenders :
              Cardinality({i \in (Len(disk0) + 1)..Len(disk) :
                              SameEntry(disk[i], MarshalEntry(entry[p]))}) = 1

C9_Witness ==
    /\ Cardinality(Appenders) >= 2
    /\ \A p \in Procs : pc[p] = "done"
    /\ Len(disk0) >= 1
    /\ Len(disk) = Len(disk0) + Cardinality(Appenders)

\* the step in which p's Append returns
AppendReturns(p) == pc[p] = "append" /\ pc'[p] = "done"

HasStatus(es, status) == \E i \in 1..Len(es) : es[i].status = status

\* C10: after an Append the store holds at most the cap; an Append that takes
\* the store over the cap removes the oldest published entry, the oldest
\* queued entry only if there is no published one, and leaves exactly the cap.
C10_EvictionPolicy ==
    [][\A p \in Procs : AppendReturns(p) =>
        LET before == IF needsMigration(loadFromDisk(disk), disk)
                      THEN atomicWrite(migrateFromLegacy(disk))
                      ELSE disk
            pre == Append(before, MarshalEntry(entry[p]))
        IN  /\ Len(disk') <= maxEntries
            /\ Len(pre) <= maxEntries => disk' = pre
            /\ Len(pre) > maxEntries =>
                 /\ Len(disk') = maxEntries
                 /\ \E k \in 1..Len(pre) :
                       /\ disk' = RemoveAt(pre, k)
                       /\ HasStatus(pre, "published") =>
                             /\ pre[k].status = "published"
                             /\ \A j \in 1..(k - 1) : pre[j].status # "published"
                       /\ (~HasStatus(pre, "published") /\ HasStatus(pre, "queued")) =>
                             /\ pre[k].status = "queued"
                             /\ \A j \in 1..(k - 1) : pre[j].status # "queued"]_vars

\* an Append on a full store whose oldest entry is queued and which holds a
\* published entry: the published one went, the queued one stayed
C10_Witness ==
    \E p \in Appenders :
        /\ Returned(p)
        /\ \A q \in Procs : q # p => pc[q] = "idle"
        /\ Len(disk0) = maxEntries
        /\ disk0[1].status = "queued"
        /\ HasStatus(disk0, "published")
        /\ Len(disk) = maxEntries
        /\ disk[1] = disk0[1]
        /\ disk[Len(disk)] = MarshalEntry(entry[p])


\* C12 (as claimed): when Append returns an entry, the entry is in the store
\* it has just written.
C12_AppendedIsStored ==
    [][\A p \in Procs : AppendReturns(p) =>
        \E i \in 1..Len(disk') : disk'[i] = MarshalEntry(entry[p])]_vars

----------------------------------------------------------------------------
(* Claims on concurrent orchestrator invocations (Spec) *)

\* the step in which p's ResetToQueued returns and its invocation ends
ResetReturns(p) == pc[p] = "RESET" /\ pc'[p] = "done"

\* the stored entries with the ID
WithID(doc, id) == {i \in 1..Len(doc) : doc[i].id = id}

C4_SendsAreSpaced ==
    minInterval > 0 =>
        \A s1, s2 \in sends :
            s1 # s2 => (s1.t - s2.t >= minInterval \/ s2.t - s1.t >= minInterval)

\* an invocation between its claim and the end of its finalize or reset
Holding(p) == pc[p] \in {"SEND", "FINALIZE", "RESET"}

\* C5 (as claimed): no two invocations are at the same time between their
\* claim and their finalize or reset for the same entry.
C5_ClaimExcludes ==
    \A p, q \in Procs :
        (p # q /\ Holding(p) /\ Holding(q)) => entry[p].ID # entry[q].ID

\* C7 (as claimed): for every stored entry, PublishedAt is set if and only if
\* its status is published.
C7_PublishedAtIffPublished ==
    \A i \in 1..Len(disk) :
        (disk[i].published_at # Empty) <=> (disk[i].status = "published")

\* C8 (as claimed): every change of a stored entry's status is
\* queued -> publishing, publishing -> published or publishing -> queued.
C8_OnlyLifecycleTransitions ==
    [][\A i \in 1..Len(disk) :
        (i <= Len(disk') /\ disk'[i].status # disk[i].status) =>
            <<disk[i].status, disk'[i].status>> \in
                {<<"queued", "publishing">>, <<"publishing", "published">>,
                 <<"publishing", "queued">>}]_vars

----------------------------------------------------------------------------
(* Claims on eviction as a function of the slice (SpecEvict) *)

IDsOf(doc) == {doc[i].id : i \in 1..Len(doc)}

\* C11: enforceMaxEntries removes a publishing entry only from a slice that
\* holds no published and no queued entry, and then the slice is trimmed
\* from the front: the result is its last maxEntries entries.
C11_PublishingEvictedLast ==
    [][\A p \in Procs : (pc[p] = "idle" /\ pc'[p] = "done") =>
        \A i \in 1..Len(disk) :
            (disk[i].status = "publishing" /\ disk[i].id \notin IDsOf(disk')) =>
                /\ ~HasStatus(disk, "published")
                /\ ~HasStatus(disk, "queued")
                /\ disk' = SubSeq(disk, Len(disk) - maxEntries + 1, Len(disk))]_vars

\* a slice of publishing entries only, one over the cap: the first one went
C11_Witness ==
    /\ Len(disk0) = maxEntries + 1
    /\ \A i \in 1..Len(disk0) : disk0[i].status = "publishing"
    /\ \E p \in Procs : call[p] = "enforce"
    /\ disk = SubSeq(disk0, 2, Len(disk0))

----------------------------------------------------------------------------
(* Claims on RecoverStuck under direct calls (SpecRecover) *)

\* the step in which p's direct RecoverStuck returns
RecoverReturns(p) == pc[p] = "recover" /\ pc'[p] = "done"

\* C13: RecoverStuck leaves a publishing entry whose UpdatedAt is less than
\* the timeout ago as it is, resets one whose UpdatedAt is more than the
\* timeout ago to queued with an UpdatedAt of the current second, and changes
\* no queued and no published entry.
C13_RecoverByAge ==
    [][\A p \in Procs : RecoverReturns(p) =>
        /\ Len(disk') = Len(disk)
        /\ \A i \in 1..Len(disk) :
              /\ (disk[i].status = "publishing" /\ now - disk[i].updated_at < StuckTimeout)
                    => disk'[i] = disk[i]
              /\ (disk[i].status = "publishing" /\ now - disk[i].updated_at > StuckTimeout)
                    => /\ disk'[i].status = "queued"
                       /\ disk'[i].updated_at <= now
                       /\ now - disk'[i].updated_at < TicksPerSecond
              /\ disk[i].status \in {"queued", "published"} => disk'[i] = disk[i]]_vars

\* one call met an entry on each side of the timeout
C13_Witness ==
    /\ \E p \in Procs : call[p] = "recover" /\ pc[p] = "done"
    /\ Len(disk0) >= 2
    /\ disk0[1].status = "publishing" /\ now - disk0[1].updated_at > StuckTimeout
    /\ disk0[2].status = "publishing" /\ now - disk0[2].updated_at < StuckTimeout
    /\ disk[1].status = "queued"
    /\ disk[2].status = "publishing"

\* C14: a RecoverStuck call that follows another one, with no other
\* operation in between, changes no entry.
C14_RecoverIdempotent ==
    [][\A p \in Procs :
        (RecoverReturns(p) /\ \E q \in Procs : call[q] = "recover" /\ pc[q] = "done")
            => disk' = disk]_vars

\* two calls have returned, and the first one reset an entry
C14_Witness ==
    /\ Cardinality({p \in Procs : call[p] = "recover" /\ pc[p] = "done"}) >= 2
    /\ \E i \in 1..Len(disk0) : disk0[i].status = "publishing" /\ disk[i].status = "queued"

\* ---------------------------------------------------------------------------
\* C17: the stages of an invocation

\* the successions of stages of publishOne
StageEdges ==
    {<<"idle", "GUARD_SCHEDULE">>,
     <<"GUARD_SCHEDULE", "GUARD_FREQUENCY">>, <<"GUARD_SCHEDULE", "done">>,
     <<"GUARD_FREQUENCY", "RECOVER_STUCK">>, <<"GUARD_FREQUENCY", "done">>,
     <<"RECOVER_STUCK", "CLAIM">>,
     <<"CLAIM", "SEND">>, <<"CLAIM", "done">>,
     <<"SEND", "FINALIZE">>, <<"SEND", "RESET">>,
     <<"FINALIZE", "done">>, <<"RESET", "done">>}

\* no entry of the document is a stuck one at instant t
NoneStuck(doc, t) ==
    \A i \in 1..Len(doc) : ~Stuck(UnmarshalEntry(doc[i]), StuckTimeout, t)

\* C17: an orchestrator invocation goes through its stages in the order
\* schedule guard, frequency guard, recoverStuck, claim, send, finalize (or
\* reset); it reaches the claim only from recoverStuck, which leaves no stuck
\* entry in the store; it takes an entry only in the claim stage, and it calls
\* the sender only in the send stage, reached only with a claimed entry.
C17_StagesInOrder ==
    [][\A p \in Procs : call'[p] = "publish" =>
        /\ pc'[p] # pc[p] => <<pc[p], pc'[p]>> \in StageEdges
        /\ (pc[p] = "RECOVER_STUCK" /\ pc'[p] = "CLAIM") => NoneStuck(disk', now)
        /\ entry'[p] # entry[p] => (pc[p] = "CLAIM" /\ pc'[p] = "SEND")
        /\ pc'[p] = "SEND" => entry'[p] # NoEntry
        /\ (\E s \in sends' \ sends : s.by = p) =>
              /\ pc[p] = "SEND" /\ pc'[p] = "FINALIZE"
              /\ Cardinality(sends' \ sends) = 1
              /\ \A s \in sends : s.by # p]_vars

\* an invocation recovered a stuck entry, claimed it and sent it
C17_Witness ==
    \E p \in Procs :
        /\ pc[p] = "done"
        /\ outcome[p] = "ok"
        /\ \E s \in sends : s.by = p /\ s.id = entry[p].ID
        /\ \E i \in WithID(disk0, entry[p].ID) : disk0[i].status = "publishing"

\* ---------------------------------------------------------------------------
\* C18: outside the schedule

\* the schedule is active at the civil time of the invocations
Active == IsActiveAt(DefaultSchedule, civil[1], civil[2])

\* C18: when the schedule is not active at the time of the invocation, the
\* invocation ends at the schedule guard with outcome outside_schedule; the
\* store is as it was (nothing recovered, nothing claimed) and the sender is
\* not called.
C18_OutsideScheduleNoEffect ==
    ~Active =>
        /\ disk = disk0
        /\ sends = {}
        /\ \A p \in Procs :
              /\ pc[p] \in {"idle", "GUARD_SCHEDULE", "done"}
              /\ entry[p] = NoEntry
              /\ pc[p] = "done" => outcome[p] = "outside_schedule"

\* an invocation ended outside the schedule although the store holds an entry
\* ready to be claimed and an entry to recover
C18_Witness ==
    /\ ~Active
    /\ \E p \in Procs : pc[p] = "done" /\ outcome[p] = "outside_schedule"
    /\ FirstReady(loadFromDisk(disk), now) # 0
    /\ ~NoneStuck(disk, now)
    /\ ~TooSoon(disk, now)

\* ---------------------------------------------------------------------------
\* C19: the frequency guard

\* the published entries of a document
PublishedIn(doc) == {i \in 1..Len(doc) : doc[i].status = "published"}

\* the latest instant of publication a document records
LastPublishedOf(doc) == Max({doc[i].published_at : i \in PublishedIn(doc)})

\* the step in which the frequency guard of p decides
FrequencyDecides(p) == pc[p] = "GUARD_FREQUENCY" /\ pc'[p] # pc[p]

C19_WitnessBoundary ==
    \E p \in Procs :
        /\ pc[p] = "RECOVER_STUCK"
        /\ minInterval > 0
        /\ PublishedIn(disk) # {}
        /\ now - LastPublishedOf(disk) = minInterval

\* ---------------------------------------------------------------------------
\* C20: the finalize after a successful send

\* the step in which the finalize of p ends
FinalizeReturns(p) == pc[p] = "FINALIZE" /\ pc'[p] = "done"

\* the document after is the document before with the entries of the ID
\* published at instant t, and every other entry as it was
MarkedPublished(before, after, id, t) ==
    /\ Len(after) = Len(before)
    /\ \A i \in 1..Len(before) :
          IF before[i].id = id
          THEN after[i] = [before[i] EXCEPT !.status = "published",
                                            !.published_at = FormatRFC3339(t),
                                            !.updated_at = FormatRFC3339(t)]
          ELSE after[i] = before[i]

\* C20: after a successful send the invocation ends with outcome ok whether
\* or not MarkPublished persists: either the entry is published with
\* PublishedAt and UpdatedAt set to the instant of the finalize, or the store
\* is left as it is (the entry is not reset to queued); no send is added.
C20_FinalizeOutcomeOk ==
    [][\A p \in Procs : FinalizeReturns(p) =>
        /\ outcome'[p] = "ok"
        /\ \E s \in sends : s.by = p /\ s.id = entry[p].ID
        /\ sends' = sends
        /\ \/ MarkedPublished(disk, disk', entry[p].ID, now)
           \/ disk' = disk]_vars

\* an invocation ended ok after its send while its entry is still publishing
\* in the store: MarkPublished did not persist
C20_Witness ==
    \E p \in Procs :
        /\ pc[p] = "done"
        /\ outcome[p] = "ok"
        /\ \E s \in sends : s.by = p /\ s.id = entry[p].ID
        /\ \E i \in WithID(disk, entry[p].ID) : disk[i].status = "publishing"

\* an invocation ended ok with its entry published at the instant of the finalize
C20_WitnessPersisted ==
    \E p \in Procs :
        /\ pc[p] = "done"
        /\ outcome[p] = "ok"
        /\ \E i \in WithID(disk, entry[p].ID) :
              /\ disk[i].status = "published"
              /\ disk[i].published_at = FormatRFC3339(now)
              /\ disk[i].updated_at = FormatRFC3339(now)

\* ---------------------------------------------------------------------------
\* Claims on invocations that keep occurring (SpecLive)

\* the positions of the store
Slots == 1..MaxInit

\* the entry at position i is in the claimed state
IsPublishing(i) == i <= Len(disk) /\ disk[i].status = "publishing"

\* the step in which the recoverStuck stage of p ends
RecoverStageReturns(p) == pc[p] = "RECOVER_STUCK" /\ pc'[p] = "CLAIM"

\* the step in which the claim stage of p ends
ClaimStageReturns(p) == pc[p] = "CLAIM" /\ pc'[p] \in {"SEND", "done"}

\* the claim of the entry at position i is older than the stuck timeout
ClaimedLongAgo(i) == IsPublishing(i) /\ now - disk[i].updated_at > StuckTimeout

\* C15: an entry left publishing by a killed invocation is reset to queued by
\* the recoverStuck stage of the first later invocation that passes both
\* guards more than the stuck timeout after the claim; if it is then the
\* first eligible entry at the claim of that invocation, the invocation
\* claims it and goes on to send it; and while invocations keep occurring no
\* entry stays publishing forever.
C15_KilledClaimRecovered ==
    /\ [][\A p \in Procs :
            /\ RecoverStageReturns(p) =>
                  \A i \in Slots : ClaimedLongAgo(i) => disk'[i].status = "queued"
            /\ ClaimStageReturns(p) =>
                  \A i \in Slots :
                     (/\ i <= Len(disk)
                      /\ disk[i].status = "queued"
                      /\ disk[i].scheduled_at = Empty \/ disk[i].scheduled_at <= now
                      /\ \A j \in 1..(i - 1) :
                            ~(/\ disk[j].status = "queued"
                              /\ disk[j].scheduled_at = Empty \/ disk[j].scheduled_at <= now))
                     => /\ entry'[p].ID = disk[i].id
                        /\ disk'[i].status = "publishing"
                        /\ pc'[p] = "SEND"]_vars
    /\ \A i \in Slots : []<>~IsPublishing(i)

\* the entry a killed invocation had claimed has been recovered, claimed and
\* sent by a later invocation, more than the stuck timeout after the claim
C15_Witness ==
    \E p \in Procs :
        /\ pc[p] = "killed"
        /\ entry[p] # NoEntry
        /\ \E q \in Procs \ {p} : \E s \in sends :
              /\ s.by = q
              /\ s.id = entry[p].ID
              /\ s.t - entry[p].UpdatedAt > StuckTimeout
        /\ \E i \in WithID(disk, entry[p].ID) : disk[i].status = "published"

\* ---------------------------------------------------------------------------
\* C16: at-least-once delivery (SpecQueue)

\* the entry at position i has been sent successfully and is marked published
Delivered(i) ==
    /\ disk[i].status = "published"
    /\ \E s \in sends : s.id = disk[i].id /\ s.msg = disk[i].message

\* C16 (as claimed): while invocations keep occurring inside the schedule, the
\* frequency guard passes and the sender eventually succeeds, every entry
\* appended as queued (none is removed or evicted) is eventually sent
\* successfully and marked published, also after send failures and kills
\* between claim and finalize.
C16_EveryQueuedEntryDelivered ==
    \A i \in Slots : <>(i <= Len(disk0) => Delivered(i))

\* ---------------------------------------------------------------------------
\* C21: nothing to claim

\* the entries of a document that are queued and due at instant t
EligibleIn(doc, t) ==
    {i \in 1..Len(doc) :
        /\ doc[i].status = "queued"
        /\ (doc[i].scheduled_at = Empty \/ doc[i].scheduled_at <= t)}

\* the step in which the claim stage of an orchestrator invocation ends
ClaimStageEnds(p) == pc[p] = "CLAIM" /\ pc'[p] # pc[p]

\* C21: when both guards have passed and no entry is eligible at the claim
\* (the store is empty, or every queued entry has a ScheduledAt in the
\* future), ClaimNextReady returns none and leaves the document as it is, the
\* invocation ends with outcome no_queued and the sender is not called.
C21_NothingEligibleNoQueued ==
    [][\A p \in Procs : (ClaimStageEnds(p) /\ EligibleIn(disk, now) = {}) =>
        /\ entry'[p] = NoEntry
        /\ disk' = disk
        /\ pc'[p] = "done"
        /\ outcome'[p] = "no_queued"
        /\ sends' = sends]_vars

\* an invocation ended with no_queued over a store whose only queued entries
\* are scheduled for later
C21_Witness ==
    \E p \in Procs :
        /\ pc[p] = "done"
        /\ outcome[p] = "no_queued"
        /\ entry[p] = NoEntry
        /\ \A s \in sends : s.by # p
        /\ \E i \in 1..Len(disk) : disk[i].status = "queued" /\ disk[i].scheduled_at > now

\* ---------------------------------------------------------------------------
\* C22: the document write is crash-atomic (SpecWrite)

RECURSIVE CommittedFrom(_, _)
\* the documents that complete Appends of the processes W leave, from doc on
CommittedFrom(doc, W) ==
    {doc} \cup
    UNION {CommittedFrom(atomicWrite(AppendBody(loadFromDisk(doc), doc, entry[q])), W \ {q})
              : q \in W}

\* the documents that have been or may yet be committed in the run
Committed == CommittedFrom(disk0, {q \in Procs : call[q] = "append"})

\* C22: the committed document changes only in the rename of a write whose
\* temp file holds the whole new document, and it becomes that document; a
\* kill at any point of a write (temp file not yet opened, empty, partly or
\* wholly written) leaves the committed document as it was; and what a
\* lock-free Load returns is always a whole committed document.
C22_WriteIsCrashAtomic ==
    /\ [][/\ disk' # disk =>
                \E p \in Procs :
                    /\ pc[p] = "write_tmp" /\ pc'[p] = "done"
                    /\ tmp.bytes = WriteData(p)
                    /\ disk' = WriteData(p)
          /\ \A p \in Procs : (pc'[p] = "killed" /\ pc[p] # "killed") => disk' = disk]_vars
    /\ [](disk \in Committed)
    /\ [](\A p \in Procs : (call[p] = "load" /\ pc[p] = "done") =>
              atomicWrite(result[p]) \in Committed)

\* a writer was killed with its temp file partly written: the document is
\* the one committed before, and a Load has returned it
C22_Witness ==
    \E p, q \in Procs :
        /\ call[p] = "append" /\ pc[p] = "killed"
        /\ tmp.exists /\ Len(tmp.bytes) > 0 /\ Len(tmp.bytes) <= Len(disk0)
        /\ disk = disk0
        /\ call[q] = "load" /\ pc[q] = "done"
        /\ result[q] = loadFromDisk(disk0)

\* a second writer has renamed its temp file after a first one was killed
\* in the middle of its write
C22_WitnessRename ==
    \E p, q \in Procs :
        /\ call[p] = "append" /\ pc[p] = "killed"
        /\ call[q] = "append" /\ pc[q] = "done"
        /\ ~tmp.exists
        /\ disk # disk0

----------------------------------------------------------------------------
(* C23: no store operation blocks for ever *)

\* p is blocked in flock.Lock
Waiting(p) == pc[p] \in LockStages /\ p \notin lock

\* the step is p's acquisition of the lock
Acquires(p) == p \notin lock /\ p \in lock'

\* the step releases p's lock
Releases(p) == p \in lock /\ p \notin lock'

\* C23: an operation takes the lock only while it holds none and nobody else
\* does, the lock it holds is released by the step in which its function
\* returns or its process is killed, after which the operation is over (so it
\* acquires at most once), and under fair scheduling no process stays blocked
\* in flock.Lock for ever.
C23_NoOperationBlocksForever ==
    /\ [][\A p \in Procs :
            /\ Acquires(p) => lock = {} /\ pc[p] \in LockStages /\ pc'[p] = pc[p]
            /\ Releases(p) => pc'[p] \in {"done", "killed"}
            /\ (p \in lock /\ pc'[p] # pc[p]) => p \notin lock']_vars
    /\ \A p \in Procs : []<>(~Waiting(p))

\* a process is blocked while another one holds the lock
C23_Witness == \E p, q \in Procs : Waiting(p) /\ q \in lock

\* a process holds the lock after the process that held it was killed or returned
C23_WitnessAfter ==
    \E p, q \in Procs : p \in lock /\ pc[q] \in {"done", "killed"} /\ call[q] \in {"append", "claim"}

----------------------------------------------------------------------------
(* C24: migration is idempotent *)

\* the document is one that Load migrates
IsLegacy(doc) == needsMigration(loadFromDisk(doc), doc)

\* the step is the return of p's Load
LoadReturns(p) == call[p] = "load" /\ pc[p] \in {"load", "migrate"} /\ pc'[p] = "done"

\* p's Load has returned
Loaded(p) == call[p] = "load" /\ pc[p] = "done"

\* C24: a Load that returns from a legacy document has persisted what it
\* returns, and that document is not legacy any more; a Load that returns from
\* a document that is not legacy (migrated before, or never legacy) returns the
\* document's entries and writes nothing; so all Loads of a legacy document
\* return the same entries with the same IDs, which are the document's.
C24_MigrationIdempotent ==
    /\ [][\A p \in Procs : LoadReturns(p) =>
            IF IsLegacy(disk)
            THEN /\ disk' = atomicWrite(result'[p])
                 /\ ~IsLegacy(disk')
                 /\ Len(result'[p]) = Len(disk)
            ELSE /\ disk' = disk
                 /\ result'[p] = loadFromDisk(disk)]_vars
    /\ [](\A p, q \in Procs :
            Loaded(p) /\ Loaded(q) /\ IsLegacy(disk0)
                => result[p] = result[q] /\ disk = atomicWrite(result[p]))

\* two Loads of a legacy document have returned: one has migrated, the other
\* has read the migrated document
C24_Witness ==
    \E p, q \in Procs : p # q /\ Loaded(p) /\ Loaded(q) /\ IsLegacy(disk0) /\ ~IsLegacy(disk)

----------------------------------------------------------------------------
(* C25: what migration yields *)

\* C25: the Load that migrates a legacy document of n records returns n
\* entries, the i-th made of the i-th record: its message, published, created
\* and published at the record's ts, no other stamp, and the ID that the hash
\* gives for (ts, 0-based position, message).
C25_MigratedEntries ==
    [][\A p \in Procs : (LoadReturns(p) /\ IsLegacy(disk)) =>
            /\ Len(result'[p]) = Len(disk)
            /\ \A i \in 1..Len(disk) :
                  result'[p][i] =
                      [ID |-> HashID(disk[i].ts, i - 1, disk[i].message),
                       Message |-> disk[i].message, Status |-> "published",
                       CreatedAt |-> disk[i].ts, ScheduledAt |-> Empty,
                       PublishedAt |-> disk[i].ts, UpdatedAt |-> Empty]]_vars

\* a Load has migrated a document of MaxInit records, one of them without a ts
C25_Witness ==
    \E p \in Procs :
        /\ Loaded(p) /\ IsLegacy(disk0) /\ Len(result[p]) = MaxInit
        /\ \E i \in 1..Len(disk0) : disk0[i].ts = Empty

----------------------------------------------------------------------------
(* C26: concurrent Load and Append on a legacy document *)

\* the entries that the migration of a legacy document is to give
MigratedForm(doc) ==
    [i \in 1..Len(doc) |->
        [ID |-> HashID(doc[i].ts, i - 1, doc[i].message),
         Message |-> doc[i].message, Status |-> "published",
         CreatedAt |-> doc[i].ts, ScheduledAt |-> Empty,
         PublishedAt |-> doc[i].ts, UpdatedAt |-> Empty]]

\* the entries that come from the legacy records: an appended entry carries
\* the number of its process as message, a legacy record carries 0
LegacyPart(es) == SelectSeq(es, LAMBDA e : e.Message = 0)

IsSuffix(s, t) == Len(s) <= Len(t) /\ s = SubSeq(t, Len(t) - Len(s) + 1, Len(t))

\* p's Append has returned
Appended(p) == call[p] = "append" /\ pc[p] = "done"

\* how many entries the cap has evicted at most: the appended ones beyond the cap
Overshoot ==
    Max({0, Len(disk0) + Cardinality({p \in Procs : Appended(p)}) - maxEntries})

\* the entries are the migrated ones, but for those the cap has evicted
\* (oldest published first, so from the front)
MigratedKept(es) ==
    /\ IsSuffix(LegacyPart(es), MigratedForm(disk0))
    /\ Len(LegacyPart(es)) >= Len(disk0) - Overshoot

\* C26: on a legacy document under concurrent Loads and Appends (and claims
\* and kills), the document is either still the legacy one or holds the
\* migrated entries, a migrated document never becomes legacy again or is
\* migrated anew, every Load that has returned has returned the migrated
\* entries, and the entry of every Append that has returned is in the document.
C26_ConcurrentMigration ==
    /\ [](IsLegacy(disk0) =>
            /\ disk = disk0 \/ (~IsLegacy(disk) /\ MigratedKept(loadFromDisk(disk)))
            /\ \A p \in Procs : Loaded(p) => MigratedKept(result[p])
            /\ \A q \in Procs : Appended(q) =>
                  \E i \in 1..Len(disk) : disk[i].message = q /\ disk[i].id = entry[q].ID)
    /\ [][(IsLegacy(disk0) /\ ~IsLegacy(disk)) =>
            /\ ~IsLegacy(disk')
            /\ \A i \in 1..Len(disk) : disk[i].message # 0 =>
                  \E j \in 1..Len(disk') : disk'[j].message = disk[i].message]_vars

\* a Load that has read the legacy document waits for the lock, while an
\* Append has migrated the document and added its entry
C26_Witness ==
    \E p, q \in Procs :
        /\ call[p] = "load" /\ pc[p] = "migrate" /\ Appended(q)
        /\ IsLegacy(disk0) /\ ~IsLegacy(disk)

\* that Load has returned the migrated entries and the appended one
C26_WitnessReturned ==
    \E p, q \in Procs :
        /\ Loaded(p) /\ Appended(q) /\ IsLegacy(disk0)
        /\ Len(result[p]) = Len(disk0) + 1

----------------------------------------------------------------------------
(* C27: when the schedule is active *)

\* the instant is on one of the schedule's weekdays, at or after StartHour:00
\* and before EndHour:00, by the minute of its day
InWindow(s, t) ==
    /\ WeekdayNames[((t \div MinutesPerDay) % 7) + 1] \in s.Weekdays
    /\ s.StartHour * 60 <= t % MinutesPerDay
    /\ t % MinutesPerDay < s.EndHour * 60

\* the hours and weekdays of the default schedule, whatever the interval
DefaultHours(s) ==
    /\ s.StartHour = DefaultSchedule.StartHour
    /\ s.EndHour = DefaultSchedule.EndHour
    /\ s.Weekdays = DefaultSchedule.Weekdays

\* C27: IsActiveAt answers true exactly for the instants on a weekday of the
\* schedule from StartHour:00 up to but not including EndHour:00; under the
\* default hours Monday 17:00 is inactive and Friday 16:59 is active, and no
\* instant of a day outside the weekdays is active.
C27_ActiveExactlyInWindow ==
    "IsActiveAt" \in ran =>
        /\ active <=> InWindow(sched, instant)
        /\ (DefaultHours(sched) /\ instant = DateAt(7, 17)) => ~active
        /\ (DefaultHours(sched) /\ instant = DateAt(11, 16) + 59) => active
        /\ Weekday(instant) \notin sched.Weekdays => ~active

\* asked about Monday 17:00 under the default hours
C27_Witness ==
    "IsActiveAt" \in ran /\ DefaultHours(sched) /\ instant = DateAt(7, 17) /\ ~active

\* asked about Friday 16:59 under the default hours
C27_WitnessLastMinute ==
    "IsActiveAt" \in ran /\ DefaultHours(sched) /\ instant = DateAt(11, 16) + 59 /\ active

----------------------------------------------------------------------------
(* C28: the next active instant *)

\* the schedule is active at some time
ValidSchedule(s) == s.StartHour < s.EndHour /\ s.Weekdays # {}

\* the whole hours strictly between two instants
HoursBetween(t, u) ==
    {DateAt(d, h) : d \in Day(t)..Day(u), h \in 0..23} \cap ((t + 1)..(u - 1))

\* C28: on a schedule that is active at some time, AdvanceToActive returns
\* the instant itself if it is active; otherwise it returns StartHour:00 of a
\* day, which is active and after the instant, with no active hour between
\* the two, on the same day exactly when the instant is before StartHour on
\* one of the weekdays; under the default hours Friday 18:00 gives Monday 09:00.
C28_AdvanceIsEarliestActive ==
    ("AdvanceToActive" \in ran /\ ValidSchedule(sched)) =>
        IF InWindow(sched, instant)
        THEN advanced = instant
        ELSE /\ InWindow(sched, advanced)
             /\ advanced > instant
             /\ advanced % MinutesPerDay = sched.StartHour * 60
             /\ \A u \in HoursBetween(instant, advanced) : ~InWindow(sched, u)
             /\ (advanced \div MinutesPerDay = instant \div MinutesPerDay)
                    <=> /\ instant % MinutesPerDay < sched.StartHour * 60
                        /\ Weekday(instant) \in sched.Weekdays
             /\ (DefaultHours(sched) /\ instant = DateAt(11, 18))
                    => advanced = DateAt(14, 9)

\* asked on Friday 18:00 under the default hours: Monday 09:00
C28_Witness ==
    /\ "AdvanceToActive" \in ran /\ DefaultHours(sched)
    /\ instant = DateAt(11, 18) /\ advanced = DateAt(14, 9)

\* asked before the start hour of an active day: the start hour of that day
C28_WitnessSameDay ==
    /\ "AdvanceToActive" \in ran /\ ValidSchedule(sched)
    /\ ~InWindow(sched, instant) /\ Day(advanced) = Day(instant)

----------------------------------------------------------------------------
(* C29: the predictor's recurrence *)

\* the earliest instant at or after t inside the schedule's window
EarliestInWindow(s, t) ==
    IF InWindow(s, t)
    THEN t
    ELSE LET starts == {u \in {DateAt(d, s.StartHour) : d \in Day(t)..(Day(t) + 7)} :
                            u > t /\ InWindow(s, u)}
         IN  CHOOSE u \in starts : \A v \in starts : u <= v

\* cursor0: max(now, lastPublished + MinInterval) when there is a minimum
\* interval and a last publication, else now
Cursor0 ==
    IF sched.PostEveryMinutes > 0 /\ lastPublished # ZeroTime
    THEN Max({instant, lastPublished + sched.PostEveryMinutes})
    ELSE instant

\* the step of the cursor: max(MinInterval, 10 minutes)
CursorStep == Max({sched.PostEveryMinutes, 10})

\* max(cursor, ScheduledAt_i), the cursor itself for an entry not scheduled
FromCursor(i, cursor) ==
    IF queue[i].ScheduledAt = Empty THEN cursor ELSE Max({cursor, queue[i].ScheduledAt})

RECURSIVE ExpectedAt(_)
\* prediction_i of the recurrence
ExpectedAt(i) ==
    EarliestInWindow(sched,
        FromCursor(i, IF i = 1 THEN Cursor0 ELSE ExpectedAt(i - 1) + CursorStep))

Predicted == "PredictPublishTimes" \in ran

\* the queue of n entries, none of them scheduled
Unscheduled(n) == Len(queue) = n /\ \A i \in 1..n : queue[i].ScheduledAt = Empty

\* the recurrence, and the two scenarios under the default schedule
RecurrenceHolds ==
    /\ Len(predictions) = Len(queue)
    /\ \A i \in 1..Len(queue) :
          /\ predictions[i].Entry = queue[i]
          /\ predictions[i].PublishAt = ExpectedAt(i)
    /\ (sched = DefaultSchedule /\ lastPublished = ZeroTime /\ instant = DateAt(7, 9)
            /\ Unscheduled(3))
          => /\ predictions[1].PublishAt = DateAt(7, 9)
             /\ predictions[2].PublishAt = DateAt(7, 12)
             /\ predictions[3].PublishAt = DateAt(7, 15)
    /\ (sched = DefaultSchedule /\ lastPublished = ZeroTime /\ instant = DateAt(11, 16)
            /\ Unscheduled(2))
          => /\ predictions[1].PublishAt = DateAt(11, 16)
             /\ predictions[2].PublishAt = DateAt(14, 9)

\* the claim as stated: with no minimum interval, consecutive predictions are
\* 10 minutes apart
C29_RecurrenceAndTenMinutes ==
    Predicted =>
        /\ RecurrenceHolds
        /\ sched.PostEveryMinutes = 0 =>
              \A i \in 1..(Len(predictions) - 1) :
                  predictions[i + 1].PublishAt = predictions[i].PublishAt + 10

\* C29: PredictPublishTimes returns one prediction per entry in stored order,
\* by the recurrence cursor0 = max(now, lastPublished + MinInterval) when
\* MinInterval > 0 and lastPublished exists, else now; prediction_i =
\* AdvanceToActive(max(cursor, ScheduledAt_i)); cursor = prediction_i +
\* max(MinInterval, 10 minutes); with the two scenarios of the default
\* schedule; and with MinInterval = 0 consecutive predictions are at least 10
\* minutes apart, exactly 10 when the earlier one plus 10 minutes is active
\* and the later entry is not scheduled after it.
C29_Recurrence ==
    Predicted =>
        /\ RecurrenceHolds
        /\ sched.PostEveryMinutes = 0 =>
              \A i \in 1..(Len(predictions) - 1) :
                  /\ predictions[i + 1].PublishAt >= predictions[i].PublishAt + 10
                  /\ (/\ InWindow(sched, predictions[i].PublishAt + 10)
                      /\ FromCursor(i + 1, predictions[i].PublishAt + 10)
                            = predictions[i].PublishAt + 10)
                        => predictions[i + 1].PublishAt = predictions[i].PublishAt + 10

\* Friday 16:00 under the default schedule, two entries: Friday 16:00, Monday 09:00
C29_Witness ==
    /\ Predicted /\ sched = DefaultSchedule /\ instant = DateAt(11, 16) /\ Unscheduled(2)
    /\ predictions[2].PublishAt = DateAt(14, 9)

\* no minimum interval, and the next prediction is more than 10 minutes later
C29_WitnessWindowEnd ==
    /\ Predicted /\ sched.PostEveryMinutes = 0 /\ Unscheduled(2)
    /\ predictions[2].PublishAt > predictions[1].PublishAt + 10

\* the last publication pushes the first prediction
C29_WitnessLastPublished ==
    /\ Predicted /\ Len(queue) > 0 /\ lastPublished # ZeroTime
    /\ predictions[1].PublishAt = lastPublished + sched.PostEveryMinutes
    /\ predictions[1].PublishAt > instant

----------------------------------------------------------------------------
(* C30: positions and the approximate flag *)

\* C30: the predictions are at positions 1..n in stored order, the first is
\* exact and every later one is flagged approximate; an empty queue gives an
\* empty result.
C30_FirstExactRestApproximate ==
    Predicted =>
        /\ Len(predictions) = Len(queue)
        /\ \A i \in 1..Len(predictions) :
              /\ predictions[i].Position = i
              /\ predictions[i].Entry = queue[i]
              /\ predictions[i].Approximate <=> i > 1
        /\ queue = <<>> => predictions = <<>>

\* a result of three predictions
C30_Witness ==
    /\ Predicted /\ Len(predictions) = 3
    /\ ~predictions[1].Approximate /\ predictions[3].Approximate

\* the result of an empty queue
C30_WitnessEmpty == Predicted /\ queue = <<>> /\ predictions = <<>>

----------------------------------------------------------------------------
(* C31: the display path and the store *)

\* the step is one of the display command p runs
ShowStep(p) == call[p] = "show" /\ (pc'[p] # pc[p] \/ Acquires(p))

\* the claim as stated: no step of the display path changes the document,
\* whatever the document holds
C31_DisplayNeverWrites ==
    [][\A p \in Procs : ShowStep(p) => disk' = disk]_vars

\* C31: a step of the display path (Queued, LastPublishedTime,
\* PredictPublishTimes) leaves a document in the current format as it is,
\* also next to concurrent writers; on a legacy document its only write is
\* the migration that Load persists: the migrated form of that document.
C31_DisplayWritesOnlyMigration ==
    [][\A p \in Procs : ShowStep(p) =>
            \/ disk' = disk
            \/ /\ IsLegacy(disk)
               /\ pc[p] \in {"QUEUED_MIGRATE", "LAST_MIGRATE"}
               /\ disk' = atomicWrite(MigratedForm(disk))]_vars

\* the display command has run to its end on a document in the current
\* format that holds entries, next to a writer that has changed the document
C31_Witness ==
    \E p, q \in Procs :
        /\ call[p] = "show" /\ pc[p] = "done" /\ Predicted
        /\ ~IsLegacy(disk0) /\ Len(disk0) > 0
        /\ call[q] \in {"append", "claim"} /\ pc[q] = "done" /\ disk # disk0

\* the display command has run on a legacy document, which it has migrated
C31_WitnessLegacy ==
    \E p \in Procs :
        /\ call[p] = "show" /\ pc[p] = "done" /\ IsLegacy(disk0)
        /\ \A q \in Procs \ {p} : pc[q] = "idle"
        /\ disk = atomicWrite(MigratedForm(disk0))

-----------------------------------------------------------------------------
(* The store's deletions and finalizations called on their own *)

\* an ID no stored entry has
AbsentID == NumIDs + 1

\* Remove(id) up to withLock
CallRemove(p) ==
    /\ pc[p] = "idle"
    /\ InOrder(p)
    /\ \E id \in IDs \cup {AbsentID} :
          entry' = [entry EXCEPT ![p] = [NoEntry EXCEPT !.ID = id]]
    /\ pc' = [pc EXCEPT ![p] = "remove"]
    /\ call' = [call EXCEPT ![p] = "remove"]
    /\ UNCHANGED <<disk, lock, now, loaded, outcome, sends, minInterval, disk0, civil, nextEligible, tmp, result, schedVars, ret, arg, claimedAt>>

\* a removal of every entry that has the ID
RemoveEveryMatch(es, id) == SelectSeq(es, LAMBDA e : e.ID # id)

\* what Remove's loop leaves: the slice without the first entry that has the ID
RemoveFirstMatch(es, id) == RemoveAt(es, FindID(es, id))

\* Remove's fn: delete the first entry that has the ID and persist; write
\* nothing when no entry has it
Remove(p) ==
    /\ pc[p] = "remove"
    /\ p \in lock
    /\ LET es == loadFromDisk(loaded[p])
           found == FindID(es, entry[p].ID) # 0
       IN  /\ disk' = IF found THEN atomicWrite(RemoveFirstMatch(es, entry[p].ID)) ELSE disk
           /\ ret' = [ret EXCEPT ![p] = [NoReturn EXCEPT !.found = found]]
    /\ lock' = lock \ {p}
    /\ loaded' = [loaded EXCEPT ![p] = <<>>]
    /\ pc' = [pc EXCEPT ![p] = "done"]
    /\ UNCHANGED <<call, now, entry, outcome, sends, minInterval, disk0, civil, nextEligible, tmp, result, schedVars, arg, claimedAt>>

\* ClearPublished() up to withLock
CallClearPublished(p) ==
    /\ pc[p] = "idle"
    /\ InOrder(p)
    /\ pc' = [pc EXCEPT ![p] = "clear_published"]
    /\ call' = [call EXCEPT ![p] = "clear_published"]
    /\ UNCHANGED <<disk, lock, now, loaded, entry, outcome, sends, minInterval, disk0, civil, nextEligible, tmp, result, schedVars, ret, arg, claimedAt>>

\* a filter that keeps the queued entries only
KeepQueued(es) == SelectSeq(es, LAMBDA e : e.Status = "queued")

\* ClearPublished's filter
KeepUnpublished(es) == SelectSeq(es, LAMBDA e : e.Status # "published")

\* ClearPublished's fn: persist the entries that are not published, always
ClearPublished(p) ==
    /\ pc[p] = "clear_published"
    /\ p \in lock
    /\ disk' = atomicWrite(KeepUnpublished(loadFromDisk(loaded[p])))
    /\ ret' = [ret EXCEPT ![p] = NoReturn]
    /\ lock' = lock \ {p}
    /\ loaded' = [loaded EXCEPT ![p] = <<>>]
    /\ pc' = [pc EXCEPT ![p] = "done"]
    /\ UNCHANGED <<call, now, entry, outcome, sends, minInterval, disk0, civil, nextEligible, tmp, result, schedVars, arg, claimedAt>>

\* ClearAll() up to withLock
CallClearAll(p) ==
    /\ pc[p] = "idle"
    /\ InOrder(p)
    /\ pc' = [pc EXCEPT ![p] = "clear_all"]
    /\ call' = [call EXCEPT ![p] = "clear_all"]
    /\ UNCHANGED <<disk, lock, now, loaded, entry, outcome, sends, minInterval, disk0, civil, nextEligible, tmp, result, schedVars, ret, arg, claimedAt>>

\* ClearAll's fn: persist the empty slice; the document is not read
ClearAll(p) ==
    /\ pc[p] = "clear_all"
    /\ p \in lock
    /\ disk' = atomicWrite(<<>>)
    /\ ret' = [ret EXCEPT ![p] = NoReturn]
    /\ lock' = lock \ {p}
    /\ loaded' = [loaded EXCEPT ![p] = <<>>]
    /\ pc' = [pc EXCEPT ![p] = "done"]
    /\ UNCHANGED <<call, now, entry, outcome, sends, minInterval, disk0, civil, nextEligible, tmp, result, schedVars, arg, claimedAt>>

\* MarkPublished(id) up to withLock
CallMarkPublished(p) ==
    /\ pc[p] = "idle"
    /\ InOrder(p)
    /\ \E id \in IDs \cup {AbsentID} :
          entry' = [entry EXCEPT ![p] = [NoEntry EXCEPT !.ID = id]]
    /\ pc' = [pc EXCEPT ![p] = "mark"]
    /\ call' = [call EXCEPT ![p] = "mark"]
    /\ UNCHANGED <<disk, lock, now, loaded, outcome, sends, minInterval, disk0, civil, nextEligible, tmp, result, schedVars, ret, arg, claimedAt>>

\* ResetToQueued(id) up to withLock
CallResetToQueued(p) ==
    /\ pc[p] = "idle"
    /\ InOrder(p)
    /\ \E id \in IDs \cup {AbsentID} :
          entry' = [entry EXCEPT ![p] = [NoEntry EXCEPT !.ID = id]]
    /\ pc' = [pc EXCEPT ![p] = "reset"]
    /\ call' = [call EXCEPT ![p] = "reset"]
    /\ UNCHANGED <<disk, lock, now, loaded, outcome, sends, minInterval, disk0, civil, nextEligible, tmp, result, schedVars, ret, arg, claimedAt>>

\* the kinds of record a store in the current format holds at position i
StoredKinds(i) ==
    UNION {{[o EXCEPT !.message = i] : o \in InitKinds(id, {Empty, StoreNow + 1})} : id \in IDs}

\* the documents of n records in the current format: any statuses, and IDs
\* that may repeat (generateID checks no collision)
StoredDocs(n) ==
    {d \in [1..n -> UNION {StoredKinds(i) : i \in 1..n}] : \A i \in 1..n : d[i].message = i}

\* Remove, ClearPublished and ClearAll calls, one after another or concurrently,
\* on a document in the current format or on a legacy document
InitDelete ==
    /\ disk \in UNION {StoredDocs(n) : n \in 0..MaxInit}
                \cup UNION {LegacyDocs(n) : n \in 1..MaxInit}
    /\ now = StoreNow
    /\ minInterval = 0
    /\ civil = ActiveTime
    /\ InitLocals

NextDelete ==
    \/ \E p \in Procs : CallRemove(p)
    \/ \E p \in Procs : CallClearPublished(p)
    \/ \E p \in Procs : CallClearAll(p)
    \/ \E p \in Procs : Lock(p)
    \/ \E p \in Procs : Remove(p)
    \/ \E p \in Procs : ClearPublished(p)
    \/ \E p \in Procs : ClearAll(p)

SpecDelete == InitDelete /\ [][NextDelete]_vars

-----------------------------------------------------------------------------
(* C32: the deletions *)

\* the store as Load returns it: the entries of the document, migrated when the
\* document is legacy
StoreOf(doc) == IF IsLegacy(doc) THEN MigratedForm(doc) ELSE loadFromDisk(doc)

\* es without its i-th entry, the others in their order
Without(es, i) == [j \in 1..(Len(es) - 1) |-> IF j < i THEN es[j] ELSE es[j + 1]]

\* the step is the return of p's call of the store operation op
Returns(p, op) == call[p] = op /\ pc[p] = op /\ pc'[p] = "done"

\* what the claim asks of the return of a Remove, a ClearPublished or a ClearAll
\* that found the entries es and leaves the entries es2
DeletionAsClaimed(p, es, es2) ==
    /\ Returns(p, "remove") =>
          /\ ret'[p].err = ""
          /\ IF \E i \in 1..Len(es) : es[i].ID = entry[p].ID
             THEN /\ ret'[p].found
                  /\ \E i \in 1..Len(es) :
                        /\ es[i].ID = entry[p].ID
                        /\ \A j \in 1..(i - 1) : es[j].ID # entry[p].ID
                        /\ es2 = Without(es, i)
             ELSE /\ ~ret'[p].found
                  /\ disk' = disk
    /\ Returns(p, "clear_published") =>
          /\ Len(es2) = Cardinality({i \in 1..Len(es) : es[i].Status # "published"})
          /\ \A i \in 1..Len(es2) : es2[i].Status # "published"
          /\ \E f \in [1..Len(es2) -> 1..Len(es)] :
                /\ \A i \in 1..Len(es2) : es2[i] = es[f[i]]
                /\ \A i, j \in 1..Len(es2) : i < j => f[i] < f[j]
    /\ Returns(p, "clear_all") => disk' = <<>>

\* C32: Remove(id) deletes the entry that has the ID (the first one, should
\* several have it), whatever its status, and returns found = true, or returns
\* found = false with no error and the store as it was when no entry has the
\* ID; ClearPublished deletes exactly the published entries; ClearAll leaves
\* the store empty; every other entry stays as it was, in the same order. The
\* store is what Load returns.
C32_DeletesExactlyTarget ==
    [][\A p \in Procs : DeletionAsClaimed(p, StoreOf(disk), StoreOf(disk'))]_vars

\* the same on a document in the current format
C32_DeletesExactlyTargetCurrentFormat ==
    [][\A p \in Procs :
          ~IsLegacy(disk) => DeletionAsClaimed(p, loadFromDisk(disk), loadFromDisk(disk'))]_vars

\* a ClearPublished has run on a legacy document: the records Load would have
\* returned as published entries are still there, without ID, status and ts
C32_LegacyCleared ==
    \E p \in Procs :
        /\ call[p] = "clear_published" /\ pc[p] = "done"
        /\ \A q \in Procs \ {p} : pc[q] = "idle"
        /\ IsLegacy(disk0) /\ Len(disk) = Len(disk0) /\ ~IsLegacy(disk)
        /\ \A i \in 1..Len(disk) : disk[i].id = Empty /\ disk[i].ts = Empty

\* MarkPublished and ResetToQueued calls, one after another or concurrently, on
\* a document in the current format or on a legacy document
InitFinalize ==
    /\ disk \in UNION {StoredDocs(n) : n \in 0..MaxInit}
                \cup UNION {LegacyDocs(n) : n \in 1..MaxInit}
    /\ now = StoreNow
    /\ minInterval = 0
    /\ civil = ActiveTime
    /\ InitLocals

NextFinalize ==
    \/ \E p \in Procs : CallMarkPublished(p)
    \/ \E p \in Procs : CallResetToQueued(p)
    \/ \E p \in Procs : Lock(p)
    \/ \E p \in Procs : MarkPublished(p)
    \/ \E p \in Procs : ResetToQueued(p)

SpecFinalize == InitFinalize /\ [][NextFinalize]_vars

-----------------------------------------------------------------------------
(* C33: MarkPublished and ResetToQueued *)

\* some entry of es has the ID
HasID(es, id) == \E i \in 1..Len(es) : es[i].ID = id

\* C33: a MarkPublished(id) or ResetToQueued(id) for an ID no entry has
\* returns an error and leaves the document as it is; for an ID an entry has
\* it returns no error, and an entry with that ID is afterwards published with
\* PublishedAt and UpdatedAt stamped with the instant of the call (for
\* MarkPublished), or queued with UpdatedAt stamped (for ResetToQueued).
C33_MarkAndReset ==
    [][\A p \in Procs :
          LET es == loadFromDisk(disk)
              es2 == loadFromDisk(disk')
              id == entry[p].ID
              stamp == now - (now % TicksPerSecond)
          IN  /\ (Returns(p, "mark") \/ Returns(p, "reset")) /\ ~HasID(es, id) =>
                    ret'[p].err # "" /\ disk' = disk
              /\ Returns(p, "mark") /\ HasID(es, id) =>
                    /\ ret'[p].err = ""
                    /\ Len(es2) = Len(es)
                    /\ \E i \in 1..Len(es) :
                          /\ es[i].ID = id /\ es2[i].ID = id
                          /\ es2[i].Status = "published"
                          /\ es2[i].PublishedAt = stamp
                          /\ es2[i].UpdatedAt = stamp
              /\ Returns(p, "reset") /\ HasID(es, id) =>
                    /\ ret'[p].err = ""
                    /\ Len(es2) = Len(es)
                    /\ \E i \in 1..Len(es) :
                          /\ es[i].ID = id /\ es2[i].ID = id
                          /\ es2[i].Status = "queued"
                          /\ es2[i].UpdatedAt = stamp]_vars

\* a MarkPublished has returned for an ID that an entry has and a
\* ResetToQueued for an ID that no entry has
C33_Witness ==
    \E p, q \in Procs :
        /\ call[p] = "mark" /\ pc[p] = "done" /\ ret[p].err = ""
        /\ \E i \in 1..Len(disk) : disk[i].id = entry[p].ID /\ disk[i].status = "published"
        /\ call[q] = "reset" /\ pc[q] = "done" /\ ret[q].err # ""

-----------------------------------------------------------------------------
(* The store's views called on their own *)

Views == {"queued", "published", "last_published"}

\* Queued(), Published() or LastPublishedTime() up to its Load
CallView(p) ==
    /\ pc[p] = "idle"
    /\ InOrder(p)
    /\ \E v \in Views : call' = [call EXCEPT ![p] = v]
    /\ pc' = [pc EXCEPT ![p] = "view"]
    /\ UNCHANGED <<disk, lock, now, loaded, entry, outcome, sends, minInterval, disk0, civil, nextEligible, tmp, result, schedVars, ret, arg, claimedAt>>

\* what the view v returns from the entries its Load returned: the filtered
\* entries, or the latest instant
ViewEntries(v, es) ==
    IF v = "queued" THEN Queued(es) ELSE IF v = "published" THEN Published(es) ELSE <<>>

ViewReturn(v, es) ==
    IF v = "last_published" THEN [NoReturn EXCEPT !.time = LatestPublished(es)] ELSE NoReturn

\* the view's Load reads the document without the lock; the view returns
\* unless the document looks legacy
ReadView(p) ==
    /\ pc[p] = "view"
    /\ IF needsMigration(loadFromDisk(disk), disk)
       THEN /\ pc' = [pc EXCEPT ![p] = "view_migrate"]
            /\ UNCHANGED <<result, ret>>
       ELSE /\ pc' = [pc EXCEPT ![p] = "done"]
            /\ result' = [result EXCEPT ![p] = ViewEntries(call[p], loadFromDisk(disk))]
            /\ ret' = [ret EXCEPT ![p] = ViewReturn(call[p], loadFromDisk(disk))]
    /\ UNCHANGED <<disk, lock, now, call, loaded, entry, outcome, sends, minInterval, disk0, civil, nextEligible, tmp, schedVars, arg, claimedAt>>

\* the view's Load under the lock: re-read, migrate and persist unless another
\* process has migrated first; then the view returns
MigrateView(p) ==
    /\ pc[p] = "view_migrate"
    /\ p \in lock
    /\ LET legacy == needsMigration(loadFromDisk(loaded[p]), loaded[p])
           es == IF legacy THEN migrateFromLegacy(loaded[p]) ELSE loadFromDisk(loaded[p])
       IN  /\ disk' = IF legacy THEN atomicWrite(es) ELSE disk
           /\ result' = [result EXCEPT ![p] = ViewEntries(call[p], es)]
           /\ ret' = [ret EXCEPT ![p] = ViewReturn(call[p], es)]
    /\ lock' = lock \ {p}
    /\ loaded' = [loaded EXCEPT ![p] = <<>>]
    /\ pc' = [pc EXCEPT ![p] = "done"]
    /\ UNCHANGED <<now, call, entry, outcome, sends, minInterval, disk0, civil, nextEligible, tmp, schedVars, arg, claimedAt>>

\* the instants a stored PublishedAt may hold
PublishedAts == {Empty, 0, TicksPerSecond}

\* the documents of n records of any status, each with or without a
\* PublishedAt (a reset of a published entry leaves its PublishedAt)
ViewDocs(n) ==
    {d \in [1..n -> [id : 1..n, message : {0},
                     status : {"queued", "publishing", "published"},
                     created_at : {0}, scheduled_at : {Empty},
                     published_at : PublishedAts, updated_at : {Empty}, ts : {Empty}]] :
        \A i \in 1..n : d[i].id = i}

\* calls of the views, one after another or concurrently, on a document in the
\* current format or on a legacy document
InitView ==
    /\ disk \in UNION {ViewDocs(n) : n \in 0..MaxInit}
                \cup UNION {LegacyDocs(n) : n \in 1..MaxInit}
    /\ now = StoreNow
    /\ minInterval = 0
    /\ civil = ActiveTime
    /\ InitLocals

NextView ==
    \/ \E p \in Procs : CallView(p)
    \/ \E p \in Procs : ReadView(p)
    \/ \E p \in Procs : Lock(p)
    \/ \E p \in Procs : MigrateView(p)

SpecView == InitView /\ [][NextView]_vars

-----------------------------------------------------------------------------
(* C34, C35: the views *)

\* v holds exactly the entries of es whose status is in S, in the order of es
IsViewOf(v, es, S) ==
    \E f \in [1..Len(v) -> 1..Len(es)] :
        /\ \A k \in 1..Len(v) : v[k] = es[f[k]]
        /\ \A k, l \in 1..Len(v) : k < l => f[k] < f[l]
        /\ {f[k] : k \in 1..Len(v)} = {i \in 1..Len(es) : es[i].Status \in S}

\* how many times e occurs in v
Occurrences(v, e) == Cardinality({k \in 1..Len(v) : v[k] = e})

\* p's call of the view v has returned
Viewed(p, v) == call[p] = v /\ pc[p] = "done"

\* C34: Queued() returns exactly the queued and the publishing entries of the
\* store and Published() exactly the published ones, both in stored order, and
\* every entry with one of the three statuses is in exactly one of the two.
C34_ViewsPartition ==
    LET es == StoreOf(disk0)
    IN  /\ \A p \in Procs :
              /\ Viewed(p, "queued") => IsViewOf(result[p], es, {"queued", "publishing"})
              /\ Viewed(p, "published") => IsViewOf(result[p], es, {"published"})
        /\ \A p, q \in Procs :
              Viewed(p, "queued") /\ Viewed(q, "published") =>
                  \A i \in 1..Len(es) :
                      es[i].Status \in {"queued", "publishing", "published"} =>
                          Occurrences(result[p], es[i]) + Occurrences(result[q], es[i]) = 1

\* both views have returned on a store that holds a publishing and a published
\* entry
C34_Witness ==
    \E p, q \in Procs :
        /\ Viewed(p, "queued") /\ Viewed(q, "published")
        /\ \E i \in 1..Len(result[p]) : result[p][i].Status = "publishing"
        /\ Len(result[q]) > 0

\* C35: LastPublishedTime() returns the latest PublishedAt of the published
\* entries, and the zero time when there is none; an entry that is queued or
\* publishing does not count, whatever PublishedAt it carries.
C35_LastPublishedTime ==
    \A p \in Procs :
        Viewed(p, "last_published") =>
            LET es == StoreOf(disk0)
                pub == {i \in 1..Len(es) :
                          es[i].Status = "published" /\ es[i].PublishedAt # Empty}
            IN  IF pub = {}
                THEN ret[p].time = ZeroTime
                ELSE /\ \E i \in pub : ret[p].time = es[i].PublishedAt
                     /\ \A i \in pub : es[i].PublishedAt <= ret[p].time

\* LastPublishedTime has returned the instant of a published entry on a store
\* where an entry that is not published carries a later PublishedAt
C35_Witness ==
    \E p \in Procs :
        /\ Viewed(p, "last_published")
        /\ ret[p].time # ZeroTime
        /\ \E i \in 1..Len(disk) :
              disk[i].status # "published" /\ disk[i].published_at > ret[p].time

-----------------------------------------------------------------------------
(* C36: Append then Load *)

\* Appends as `post` makes them and Loads, one after another or concurrently,
\* on a document in the current format or on a legacy document
InitRoundTrip ==
    /\ disk \in UNION {StoredDocs(n) : n \in 0..MaxInit}
                \cup UNION {LegacyDocs(n) : n \in 1..MaxInit}
    /\ now = StoreNow
    /\ minInterval = 0
    /\ civil = ActiveTime
    /\ InitLocals

NextRoundTrip ==
    \/ \E p \in Procs : CallAppendAt(p)
    \/ \E p \in Procs : CallLoad(p)
    \/ \E p \in Procs : ReadFile(p)
    \/ \E p \in Procs : Lock(p)
    \/ \E p \in Procs : AppendEntry(p)
    \/ \E p \in Procs : Migrate(p)

SpecRoundTrip == InitRoundTrip /\ [][NextRoundTrip]_vars

\* the step is the return of p's Append on a store below the cap, after which
\* the store is the previous entries followed by one entry that has the
\* message and the status of the call, an ID, a CreatedAt, and the ScheduledAt
\* at: none for the zero time
AppendsOneEntry(p, at) ==
    LET es == StoreOf(disk)
        es2 == StoreOf(disk')
    IN  /\ Len(es2) = Len(es) + 1
        /\ \A i \in 1..Len(es) : es2[i] = es[i]
        /\ es2[Len(es2)].Message = entry[p].Message
        /\ es2[Len(es2)].Status = entry[p].Status
        /\ es2[Len(es2)].ID # Empty
        /\ es2[Len(es2)].CreatedAt # Empty
        /\ es2[Len(es2)].ScheduledAt = IF arg[p] = ZeroTime THEN Empty ELSE at

\* the step is the return of p's Append on a store below the cap
AppendReturnsBelowCap(p) == Returns(p, "append") /\ Len(StoreOf(disk)) < maxEntries

\* C36: after an Append(message, status, scheduledAt) on a store below the cap,
\* the store is the previous entries followed by one entry with that message,
\* that status and that scheduledAt, and with an ID and a CreatedAt; and a
\* Load returns the store. So appends appear in the order they were made.
C36_RoundTrip ==
    [][\A p \in Procs :
          /\ AppendReturnsBelowCap(p) => AppendsOneEntry(p, arg[p])
          /\ LoadReturns(p) => result'[p] = StoreOf(disk')]_vars

\* the same, with the ScheduledAt of the call taken to the whole second
C36_RoundTripToTheSecond ==
    [][\A p \in Procs :
          /\ AppendReturnsBelowCap(p) => AppendsOneEntry(p, arg[p] - (arg[p] % TicksPerSecond))
          /\ LoadReturns(p) => result'[p] = StoreOf(disk')]_vars

\* two Appends have been made below the cap, one of them with a scheduledAt
\* that is on no whole second, and a Load has returned both entries in order
C36_Witness ==
    \E p \in Procs :
        /\ Loaded(p)
        /\ Len(result[p]) = Len(StoreOf(disk0)) + 1
        /\ Len(result[p]) <= maxEntries
        /\ \E q \in Procs :
              /\ Appended(q) /\ arg[q] % TicksPerSecond # 0
              /\ result[p][Len(result[p])].Message = entry[q].Message
              /\ result[p][Len(result[p])].ScheduledAt # arg[q]

-----------------------------------------------------------------------------
(* C37: what the status operations leave alone *)

\* ClaimNextReady, MarkPublished, ResetToQueued and RecoverStuck calls, one
\* after another or concurrently, before and after the stuck timeout and the
\* scheduled instant of the stored entries
InitStatusOps ==
    /\ disk \in UNION {StoredDocs(n) : n \in 0..MaxInit}
                \cup UNION {LegacyDocs(n) : n \in 1..MaxInit}
    /\ now \in {StoreNow, StuckTimeout + TicksPerSecond}
    /\ minInterval = 0
    /\ civil = ActiveTime
    /\ InitLocals

NextStatusOps ==
    \/ \E p \in Procs : CallClaim(p)
    \/ \E p \in Procs : CallRecover(p)
    \/ \E p \in Procs : CallMarkPublished(p)
    \/ \E p \in Procs : CallResetToQueued(p)
    \/ \E p \in Procs : Lock(p)
    \/ \E p \in Procs : ClaimNextReady(p)
    \/ \E p \in Procs : RecoverStuck(p)
    \/ \E p \in Procs : MarkPublished(p)
    \/ \E p \in Procs : ResetToQueued(p)

SpecStatusOps == InitStatusOps /\ [][NextStatusOps]_vars

\* what a status operation must leave alone: the records in their order, each
\* with its ID, message, CreatedAt and ScheduledAt (and the ts of a legacy one)
Identity(doc) ==
    [i \in 1..Len(doc) |->
        <<doc[i].id, doc[i].message, doc[i].created_at, doc[i].scheduled_at, doc[i].ts>>]

\* the records p's operation is about: the queued ones for a claim, the
\* publishing ones for a recovery, the ones with the ID for the other two
Targets(p, doc) ==
    {i \in 1..Len(doc) :
        \/ call[p] = "claim" /\ doc[i].status = "queued"
        \/ call[p] = "recover" /\ doc[i].status = "publishing"
        \/ call[p] \in {"mark", "reset"} /\ doc[i].id = entry[p].ID}

\* C37: over any sequence of ClaimNextReady, MarkPublished, ResetToQueued and
\* RecoverStuck the store keeps its entries in their order, each with its ID,
\* Message, CreatedAt and ScheduledAt; and each of them changes nothing at all
\* of an entry it is not about.
C37_StatusOpsFrame ==
    /\ [](Identity(disk) = Identity(disk0))
    /\ [][\A p \in Procs :
             pc[p] # "done" /\ pc'[p] = "done" =>
                 \A i \in 1..Len(disk) : i \notin Targets(p, disk) => disk'[i] = disk[i]]_vars

\* on a store of two entries one has been claimed and an entry has been marked
\* published: both statuses and a stamp have changed
C37_Witness ==
    \E p, q \in Procs :
        /\ call[p] = "claim" /\ pc[p] = "done" /\ entry[p] # NoEntry
        /\ call[q] = "mark" /\ pc[q] = "done" /\ ret[q].err = ""
        /\ Len(disk) = 2
        /\ disk[1].status # disk0[1].status /\ disk[2].status # disk0[2].status
        /\ disk[1].updated_at # disk0[1].updated_at

-----------------------------------------------------------------------------
(* C38: deletions while a claim is held *)

\* the documents of n records in the current format with no scheduled instant:
\* any statuses, and IDs that may repeat
UnscheduledDocs(n) ==
    {d \in [1..n -> UNION {{[o EXCEPT !.message = i] : o \in InitKinds(id, {Empty})} :
                              id \in IDs, i \in 1..n}] :
        \A i \in 1..n : d[i].message = i}

\* orchestrator invocations next to the user's Remove, ClearPublished, ClearAll
\* and Append (which evicts at the cap), at one instant
InitHeld ==
    /\ disk \in UNION {UnscheduledDocs(n) : n \in 0..maxEntries}
    /\ now = StoreNow
    /\ minInterval = 0
    /\ civil = ActiveTime
    /\ InitLocals

NextHeld ==
    \/ \E p \in Procs : Invoke(p)
    \/ \E p \in Procs : GuardSchedule(p)
    \/ \E p \in Procs : GuardFrequency(p)
    \/ \E p \in Procs : Lock(p)
    \/ \E p \in Procs : RecoverStuck(p)
    \/ \E p \in Procs : ClaimNextReady(p)
    \/ \E p \in Procs : Send(p)
    \/ \E p \in Procs : MarkPublished(p)
    \/ \E p \in Procs : ResetToQueued(p)
    \/ \E p \in Procs : CallRemove(p)
    \/ \E p \in Procs : Remove(p)
    \/ \E p \in Procs : CallClearPublished(p)
    \/ \E p \in Procs : ClearPublished(p)
    \/ \E p \in Procs : CallClearAll(p)
    \/ \E p \in Procs : ClearAll(p)
    \/ \E p \in Procs : CallAppend(p)
    \/ \E p \in Procs : AppendEntry(p)

SpecHeld == InitHeld /\ [][NextHeld]_vars

\* the record is the entry: an entry is told from the others by its message
\* and its CreatedAt (stored entries carry their position as message, appended
\* ones a later CreatedAt)
IsEntry(o, e) == o.message = e.Message /\ o.created_at = e.CreatedAt /\ o.id = e.ID

\* the entry p has claimed is not in the store any more
ClaimDeleted(p) ==
    /\ Holding(p)
    /\ \A i \in 1..Len(disk) : ~IsEntry(disk[i], entry[p])

\* the step is the return of the MarkPublished or the ResetToQueued of p's
\* invocation
FinalizeOrResetReturns(p) ==
    /\ call[p] = "publish"
    /\ pc[p] \in {"FINALIZE", "RESET"}
    /\ pc'[p] = "done"

\* C38: when the entry an invocation has claimed was deleted meanwhile (by
\* Remove, ClearAll, ClearPublished or eviction), the invocation's
\* MarkPublished or ResetToQueued fails with not-found and writes nothing: the
\* store stays as the deletion left it and the entry is not re-created.
C38_DeletedStaysDeleted ==
    [][\A p \in Procs :
          FinalizeOrResetReturns(p) /\ ClaimDeleted(p) =>
              ret'[p].err = "not found" /\ disk' = disk]_vars

\* no two records of the document have the same ID
DistinctIDs(doc) == \A i, j \in 1..Len(doc) : doc[i].id = doc[j].id => i = j

\* the same on a store whose IDs are distinct and stay so (no Append draws an
\* ID again)
C38_DeletedStaysDeletedDistinctIDs ==
    [][\A p \in Procs :
          /\ FinalizeOrResetReturns(p) /\ ClaimDeleted(p)
          /\ DistinctIDs(disk0) /\ \A q \in Procs : call[q] # "append"
          => ret'[p].err = "not found" /\ disk' = disk]_vars

\* an invocation has finalized after its entry was removed from a store of
\* distinct IDs: not found, and the store is as the Remove left it
C38_WitnessDistinctIDs ==
    \E p, q \in Procs :
        /\ call[p] = "publish" /\ pc[p] = "done" /\ outcome[p] = "ok"
        /\ ret[p].err = "not found"
        /\ call[q] = "remove" /\ pc[q] = "done" /\ ret[q].found
        /\ DistinctIDs(disk0) /\ Len(disk) = Len(disk0) - 1

-----------------------------------------------------------------------------
(* C39: timely invocations *)

\* time passes, but never beyond the stuck timeout of a claim that is held: the
\* invocation sends and finalizes within StuckTimeout of its claim
TimelyTick ==
    /\ \A p \in Procs : Holding(p) => (now + 1) - claimedAt[p] <= StuckTimeout
    /\ Tick

\* concurrent orchestrator invocations that are not killed and whose store
\* calls do not fail, on a store that no invocation holds a claim on
InitTimely ==
    /\ disk \in UNION {{d \in UnscheduledDocs(n) :
                            \A i \in 1..n : d[i].status # "publishing"} : n \in 0..MaxInit}
    /\ now = TicksPerSecond - 1
    /\ minInterval = 0
    /\ civil = ActiveTime
    /\ InitLocals

NextTimely ==
    \/ \E p \in Procs : Invoke(p)
    \/ \E p \in Procs : GuardSchedule(p)
    \/ \E p \in Procs : GuardFrequency(p)
    \/ \E p \in Procs : Lock(p)
    \/ \E p \in Procs : RecoverStuck(p)
    \/ \E p \in Procs : ClaimNextReady(p)
    \/ \E p \in Procs : Send(p)
    \/ \E p \in Procs : MarkPublished(p)
    \/ \E p \in Procs : ResetToQueued(p)
    \/ TimelyTick

SpecTimely == InitTimely /\ [][NextTimely]_vars

\* C39: when every invocation sends and finalizes within the stuck timeout of
\* its claim, none is killed and no store write fails, no message is sent
\* successfully twice (the entries of the store carry distinct messages).
C39_SentAtMostOnce ==
    \A s1, s2 \in sends : s1.msg = s2.msg => s1 = s2

\* the same on a store whose IDs are distinct
C39_SentAtMostOnceDistinctIDs ==
    DistinctIDs(disk0) => C39_SentAtMostOnce

\* the same on a store whose IDs are distinct, for invocations that claim on
\* a whole second
C39_SentAtMostOnceWholeSecond ==
    (DistinctIDs(disk0) /\ \A s \in sends : claimedAt[s.by] % TicksPerSecond = 0)
        => C39_SentAtMostOnce

-----------------------------------------------------------------------------
(* C40: the predictor and the orchestrator *)

\* one minute of the store's clock: an instant on a whole second and a whole
\* minute, after the instant of the run
NextMinute == 60 * TicksPerSecond

\* the queues of n entries as `post` and `post --at` leave them: all queued,
\* each with no scheduled instant or with one in the next minute
QueuedDocs(n) ==
    {d \in [1..n -> [id : 1..n, message : 1..n, status : {"queued"}, created_at : {0},
                     scheduled_at : {Empty, NextMinute}, published_at : {Empty},
                     updated_at : {Empty}, ts : {Empty}]] :
        \A i \in 1..n : d[i].id = i /\ d[i].message = i}

\* the display command, and the timer's invocations one after the other with a
\* sender that succeeds, inside the schedule
InitOrder ==
    /\ disk \in UNION {QueuedDocs(n) : n \in 0..(MaxInit + 1)}
    /\ now = StoreNow
    /\ minInterval = 0
    /\ civil = ActiveTime
    /\ InitLocals

NextOrder ==
    \/ \E p \in Procs : CallShow(p)
    \/ \E p \in Procs : ShowQueued(p)
    \/ \E p \in Procs : ShowLastPublished(p)
    \/ \E p \in Procs : ShowPredict(p)
    \/ \E p \in Procs : Invoke(p)
    \/ \E p \in Procs : Relaunch(p)
    \/ \E p \in Procs : GuardSchedule(p)
    \/ \E p \in Procs : GuardFrequency(p)
    \/ \E p \in Procs : Lock(p)
    \/ \E p \in Procs : RecoverStuck(p)
    \/ \E p \in Procs : ClaimNextReady(p)
    \/ \E p \in Procs : SendSucceeds(p)
    \/ \E p \in Procs : MarkPublished(p)

SpecOrder == InitOrder /\ [][NextOrder]_vars

\* the forecast on display was made of the store as it was at the start
ForecastOfStart ==
    /\ Predicted
    /\ Len(predictions) = Len(disk0)
    /\ \A k \in 1..Len(predictions) : predictions[k].Entry.Message = disk0[k].message

\* the entries of the forecast that are still queued in the store
StillQueued ==
    {k \in 1..Len(predictions) :
        \E i \in 1..Len(disk) :
            disk[i].message = predictions[k].Entry.Message /\ disk[i].status = "queued"}

\* the step is a claim by p's invocation of an entry that the forecast puts
\* first among the entries still queued
ClaimsAsForecast(p) ==
    \E k \in StillQueued :
        /\ predictions[k].Entry.Message = entry'[p].Message
        /\ \A l \in StillQueued : predictions[k].PublishAt <= predictions[l].PublishAt

\* the step is a claim by p's invocation
Claims(p) == call[p] = "publish" /\ pc[p] = "CLAIM" /\ pc'[p] = "SEND"

\* C40: when all sends succeed, successive invocations claim the queued
\* entries in the order of the predictor's PublishAt values: each claim takes
\* the entry with the earliest PublishAt among those still queued, also when
\* an earlier stored entry has a future ScheduledAt and a later one has none.
C40_ClaimOrderIsForecastOrder ==
    [][\A p \in Procs : Claims(p) /\ ForecastOfStart => ClaimsAsForecast(p)]_vars

\* the same on a queue where no entry is scheduled for later
C40_ClaimOrderIsForecastOrderUnscheduled ==
    [][\A p \in Procs :
          /\ Claims(p) /\ ForecastOfStart
          /\ \A i \in 1..Len(disk0) : disk0[i].scheduled_at = Empty
          => ClaimsAsForecast(p)]_vars

\* the whole unscheduled queue has been forecast, then claimed and sent
C40_WitnessUnscheduled ==
    /\ ForecastOfStart
    /\ Len(disk0) = 2
    /\ \A i \in 1..Len(disk0) : disk0[i].scheduled_at = Empty
    /\ Cardinality(sends) = 2

=============================================================================
